---- MODULE Spec2Model ----
(***************************************************************************)
(* Model of the tgo-workflow execution engine: WorkflowGraph,              *)
(* ExecutionContext, the node executors, WorkflowExecutor.run, the         *)
(* ValidationService and the Celery task that wraps a run.                 *)
(***************************************************************************)
EXTENDS Integers, Sequences, FiniteSets, TLC

VARIABLES
    doc,            \* the workflow definition: [nodes |-> Seq(node), edges |-> Seq(edge)]
    inputs,         \* the run inputs: a mapping name -> value
    callback,       \* the on_node_complete argument: "none", "ok" or "flaky"
    via,            \* "direct": run called by a caller; "task": through endpoint and Celery task
    pc,             \* position of the run: "idle", "loop", "await", "done", "raised"
    context,        \* ExecutionContext.data: a mapping "rk.name" -> value
    executed_nodes, \* executor.py: executed_nodes
    curr_node_ids,  \* executor.py: curr_node_ids, the wavefront being processed
    idx,            \* position of the for loop inside curr_node_ids
    next_node_ids,  \* executor.py: next_node_ids
    final_output,   \* executor.py: final_output
    raised,         \* the exception that left run, "" when none
    log,            \* history: attempts and callback invocations, in order
    wavefronts,     \* history: the wavefronts of the run so far, the current one last
    errors,         \* result of validate_workflow, NotValidated before the call
    execution,      \* the WorkflowExecution row: [status, output, error]
    executing,      \* the nodes whose execute_with_timeout is awaited
    probe,          \* the last call of a method of WorkflowGraph or ExecutionContext
                    \* made on its own: [op, the arguments, result]
    backend,        \* tgo-api run_registry: "memory" (InMemoryRunRegistry) or "redis"
    registry,       \* run_registry: the stored entries, client_msg_no -> RunEntry
    requests,       \* the cancel requests: request -> [pc, client, project, reason, status]
    stream,         \* ai_processor: per client_msg_no, the events of its run handled so far
    events,         \* history: lookups, answers, run starts, cancellations sent, clears
    clock,          \* time.time()
    calls           \* RedisRunRegistry: per process, the registry call it is inside

vars == <<doc, inputs, callback, via, pc, context, executed_nodes, curr_node_ids,
          idx, next_node_ids, final_output, raised, log, wavefronts, errors, execution,
          executing, probe, backend, registry, requests, stream, events, clock, calls>>

cancelVars == <<backend, registry, requests, stream, events, clock, calls>>

runVars == <<pc, context, executed_nodes, curr_node_ids, idx, next_node_ids,
             final_output, raised, log, wavefronts, executing>>

----------------------------------------------------------------------------
(* Bounds of the model *)

MaxNodes == 3       \* nodes of a generated document
MaxEdges == 2       \* edges of a generated document that is run
MaxLiveNodes == 2   \* nodes of a generated document whose run is followed to its end
MaxValEdges == 3    \* edges of a generated document that is validated

----------------------------------------------------------------------------
(* Python values.  A value is a record whose single field names its type. *)

None == [none |-> TRUE]
PyInt(i) == [int |-> i]
PyStr(s) == [str |-> s]
PyBool(b) == [bool |-> b]
PyDict(f) == [dict |-> f]
PyList(l) == [list |-> l]

IsNone(v) == "none" \in DOMAIN v

\* dict.get(key, default)
Get(d, k, default) == IF k \in DOMAIN d THEN d[k] ELSE default

\* the empty dict
EmptyMap == [k \in {} |-> None]

\* str(value), as used by f-strings and by resolve_template
py_str(v) ==
    IF "str" \in DOMAIN v THEN v.str
    ELSE IF "int" \in DOMAIN v THEN ToString(v.int)
    ELSE IF "bool" \in DOMAIN v THEN (IF v.bool THEN "True" ELSE "False")
    ELSE IF "dict" \in DOMAIN v THEN "{...}"
    ELSE IF "list" \in DOMAIN v THEN "[...]"
    ELSE "None"

\* bool(value)
py_truthy(v) ==
    IF "str" \in DOMAIN v THEN v.str # ""
    ELSE IF "int" \in DOMAIN v THEN v.int # 0
    ELSE IF "bool" \in DOMAIN v THEN v.bool
    ELSE IF "dict" \in DOMAIN v THEN DOMAIN v.dict # {}
    ELSE IF "list" \in DOMAIN v THEN v.list # <<>>
    ELSE FALSE

\* "".join(chars)
RECURSIVE Join(_)
Join(cs) == IF cs = <<>> THEN "" ELSE Head(cs) \o Join(Tail(cs))

Range(s) == {s[i] : i \in DOMAIN s}

\* the orders in which list(set(xs)) can enumerate its elements: the
\* iteration order of a set of strings depends on the process's hash seed
Perms(S) == {p \in [1..Cardinality(S) -> S] : \A x \in S : \E i \in DOMAIN p : p[i] = x}

----------------------------------------------------------------------------
(* WorkflowGraph *)

\* the absent branch handle / sourceHandle (None, or a falsy string)
NoHandle == ""

RECURSIVE NodeIdOrder(_)
\* the keys of {n["id"]: n for n in nodes} in insertion order
NodeIdOrder(nodes) ==
    IF nodes = <<>> THEN <<>>
    ELSE LET rest == NodeIdOrder(SubSeq(nodes, 1, Len(nodes) - 1))
             last == nodes[Len(nodes)].id
         IN IF last \in Range(rest) THEN rest ELSE Append(rest, last)

\* {n["id"]: n for n in nodes}: a later node with the same id replaces the earlier
NodeMap(nodes) ==
    [id \in {nodes[i].id : i \in DOMAIN nodes} |->
        nodes[CHOOSE i \in DOMAIN nodes :
                /\ nodes[i].id = id
                /\ \A j \in DOMAIN nodes : nodes[j].id = id => j <= i]]

SeqMap(Op(_), s) == [i \in DOMAIN s |-> Op(s[i])]

EdgeSource(e) == e.source
EdgeTarget(e) == e.target

\* an edge is kept when its source is a node
WorkflowGraph_source_only(nodes, edges) ==
    LET ids == {nodes[i].id : i \in DOMAIN nodes}
        known == SelectSeq(edges, LAMBDA e : e.source \in ids)
    IN [ ids       |-> NodeIdOrder(nodes),
         nodes     |-> NodeMap(nodes),
         edges     |-> edges,
         adj       |-> [u \in ids |-> SeqMap(EdgeTarget, SelectSeq(known, LAMBDA e : e.source = u))],
         rev_adj   |-> [v \in ids |-> SeqMap(EdgeSource, SelectSeq(known, LAMBDA e : e.target = v))],
         out_edges |-> [u \in ids |-> SelectSeq(known, LAMBDA e : e.source = u)] ]

\* WorkflowGraph.__init__
WorkflowGraph(nodes, edges) ==
    LET ids == {nodes[i].id : i \in DOMAIN nodes}
        known == SelectSeq(edges, LAMBDA e : e.source \in ids /\ e.target \in ids)
    IN [ ids       |-> NodeIdOrder(nodes),
         nodes     |-> NodeMap(nodes),
         edges     |-> edges,
         adj       |-> [u \in ids |-> SeqMap(EdgeTarget, SelectSeq(known, LAMBDA e : e.source = u))],
         rev_adj   |-> [v \in ids |-> SeqMap(EdgeSource, SelectSeq(known, LAMBDA e : e.target = v))],
         out_edges |-> [u \in ids |-> SelectSeq(known, LAMBDA e : e.source = u)] ]

RECURSIVE KahnRelax(_, _, _, _)
\* the inner for loop of Kahn's algorithm over the neighbours nb of one node:
\* returns the updated in-degrees and queue
KahnRelax(nb, i, in_degree, queue) ==
    IF i > Len(nb) THEN [in_degree |-> in_degree, queue |-> queue]
    ELSE LET d == [in_degree EXCEPT ![nb[i]] = @ - 1]
         IN KahnRelax(nb, i + 1, d,
                      IF d[nb[i]] = 0 THEN Append(queue, nb[i]) ELSE queue)

RECURSIVE KahnLoop(_, _, _, _)
KahnLoop(adj, in_degree, queue, result) ==
    IF queue = <<>> THEN result
    ELSE LET curr == Head(queue)
             r == KahnRelax(adj[curr], 1, in_degree, Tail(queue))
         IN KahnLoop(adj, r.in_degree, r.queue, Append(result, curr))

\* the node ids in the order of the node list
get_topo_sort_list_order(g) == g.ids

get_topo_sort(g) ==
    LET in_degree == [n \in DOMAIN g.rev_adj |-> Len(g.rev_adj[n])]
        queue == SelectSeq(g.ids, LAMBDA n : in_degree[n] = 0)
    IN KahnLoop(g.adj, in_degree, queue, <<>>)

\* the handle is ignored
get_next_nodes_ignore_handle(g, node_id, handle_id) == Get(g.adj, node_id, <<>>)

get_next_nodes(g, node_id, handle_id) ==
    IF handle_id # NoHandle
    THEN SeqMap(EdgeTarget,
                SelectSeq(g.out_edges[node_id],
                          LAMBDA e : Get(e, "sourceHandle", NoHandle) = handle_id))
    ELSE Get(g.adj, node_id, <<>>)

get_node(g, node_id) == g.nodes[node_id]

----------------------------------------------------------------------------
(* ExecutionContext.  A template (a str of the document) is a sequence of  *)
(* one-character strings; a resolved text is a string.                      *)

get_variable(ctx, path) == Get(ctx, path, None)

set_variable(ctx, reference_key, var_name, value) ==
    LET key == reference_key \o "." \o var_name
    IN [k \in DOMAIN ctx \cup {key} |-> IF k = key THEN value ELSE ctx[k]]

\* the outputs replace the context
set_node_outputs_only(ctx, reference_key, outputs) ==
    [key \in {reference_key \o "." \o k : k \in DOMAIN outputs} |->
        outputs[CHOOSE k \in DOMAIN outputs : reference_key \o "." \o k = key]]

\* every key of outputs is written under "<reference_key>.<key>"
set_node_outputs(ctx, reference_key, outputs) ==
    LET written == {reference_key \o "." \o k : k \in DOMAIN outputs}
    IN [key \in DOMAIN ctx \cup written |->
           IF key \in written
           THEN outputs[CHOOSE k \in DOMAIN outputs : reference_key \o "." \o k = key]
           ELSE ctx[key]]

Whitespace == {" ", "\t", "\n"}

RECURSIVE LStrip(_)
LStrip(cs) == IF cs # <<>> /\ Head(cs) \in Whitespace THEN LStrip(Tail(cs)) ELSE cs

RECURSIVE RStrip(_)
RStrip(cs) ==
    IF cs # <<>> /\ cs[Len(cs)] \in Whitespace THEN RStrip(SubSeq(cs, 1, Len(cs) - 1)) ELSE cs

\* only the leading whitespace is removed
Strip_leading_only(cs) == LStrip(cs)

\* str.strip()
Strip(cs) == RStrip(LStrip(cs))

RECURSIVE RunEnd(_, _)
\* the first position at or after j that holds "}" (Len + 1 when there is none):
\* the end of what [^}]+ consumes
RunEnd(t, j) == IF j > Len(t) \/ t[j] = "}" THEN j ELSE RunEnd(t, j + 1)

\* re.match of \{\{([^}]+)\}\} at position i: the position of the last
\* character of the match, 0 when the pattern does not match there
TokenEnd(t, i) ==
    IF i + 1 <= Len(t) /\ t[i] = "{" /\ t[i + 1] = "{"
    THEN LET j == RunEnd(t, i + 2)
         IN IF j > i + 2 /\ j + 1 <= Len(t) /\ t[j] = "}" /\ t[j + 1] = "}"
            THEN j + 1 ELSE 0
    ELSE 0

\* every token is left as it is
replace_verbatim(ctx, t, i, m) == Join(SubSeq(t, i, m))

\* the replace callback of resolve_template for the match t[i..m]
replace(ctx, t, i, m) ==
    LET path == Join(Strip(SubSeq(t, i + 2, m - 2)))
        val == get_variable(ctx, path)
    IN IF ~IsNone(val) THEN py_str(val) ELSE Join(SubSeq(t, i, m))

RECURSIVE ResolveFrom(_, _, _)
\* re.sub from position i on: leftmost matches, not overlapping
ResolveFrom(ctx, t, i) ==
    IF i > Len(t) THEN ""
    ELSE LET m == TokenEnd(t, i)
         IN IF m = 0 THEN t[i] \o ResolveFrom(ctx, t, i + 1)
            ELSE replace(ctx, t, i, m) \o ResolveFrom(ctx, t, m + 1)

resolve_template(ctx, template) == ResolveFrom(ctx, template, 1)

\* a scalar that is not a str is turned into its string form
resolve_leaf_stringify(ctx, value) ==
    IF "tpl" \in DOMAIN value THEN PyStr(resolve_template(ctx, value.tpl))
    ELSE PyStr(py_str(value))

\* resolve_variables, lines 46-47 and 52: a str (a record [tpl |-> chars]) is
\* resolved, any other scalar is returned as it is
resolve_leaf(ctx, value) ==
    IF "tpl" \in DOMAIN value THEN PyStr(resolve_template(ctx, value.tpl)) ELSE value

RECURSIVE resolve_variables(_, _)
\* lines 48-51: a list is resolved element by element, a dict value by value
resolve_variables(ctx, value) ==
    IF "list" \in DOMAIN value
    THEN PyList([i \in DOMAIN value.list |-> resolve_variables(ctx, value.list[i])])
    ELSE IF "dict" \in DOMAIN value
    THEN PyDict([k \in DOMAIN value.dict |-> resolve_variables(ctx, value.dict[k])])
    ELSE resolve_leaf(ctx, value)

----------------------------------------------------------------------------
(* Node executors.  The result of an execution is                          *)
(*   [ok |-> TRUE, outputs, handle]    execute returned (outputs, handle)   *)
(*   [ok |-> FALSE, exc, error]        it raised exc, whose str() is error  *)

DEFAULT_TIMEOUT == 60

Returned(outputs, handle) == [ok |-> TRUE, outputs |-> outputs, handle |-> handle]
Raised(exc, error) == [ok |-> FALSE, exc |-> exc, error |-> error]

\* BaseNodeExecutor.__init__
Config(node) == Get(node, "data", EmptyMap)

\* self.reference_key as it is formatted into a context key (None gives "None")
RefKey(node) == Get(Config(node), "reference_key", "None")

\* node types whose execute awaits an external service
External(node) ==
    \/ node.type \in {"llm", "api", "classifier"}
    \/ node.type = "condition" /\ Get(Config(node), "condition_type", "variable") = "llm"

\* what the external services can answer in the model
LLMCompletions == {"completion"}
LLMVerdicts == { [text |-> "true", has_true |-> TRUE],
                 [text |-> "TRUE", has_true |-> TRUE],
                 [text |-> "no, it is false", has_true |-> FALSE] }
ProviderFailure == Raised("Exception", "LLM provider error")
HttpFailure == Raised("ConnectError", "connection failed")

\* StartNodeExecutor.execute
StartExecute(node, ctx) ==
    LET input_vars == Get(Config(node), "input_variables", <<>>)
    IN { Returned([name \in Range(input_vars) |->
                      get_variable(ctx, RefKey(node) \o "." \o name)], NoHandle) }

\* EndNodeExecutor.execute
EndExecute(node, ctx) ==
    LET config == Config(node)
        output_type == Get(config, "output_type", "variable")
        result ==
            IF output_type = "variable"
            THEN IF "output_variable" \in DOMAIN config /\ config.output_variable # ""
                 THEN get_variable(ctx, config.output_variable) ELSE None
            ELSE IF output_type = "template"
            THEN LET template == Get(config, "output_template", <<>>)
                 IN PyStr(resolve_template(ctx, template))
            ELSE IF output_type = "structured"
            THEN LET structure == Get(config, "output_structure", <<>>)
                 IN PyDict([key \in {structure[i].key : i \in DOMAIN structure} |->
                        resolve_variables(ctx,
                            structure[CHOOSE i \in DOMAIN structure :
                                /\ structure[i].key = key
                                /\ \A j \in DOMAIN structure :
                                      structure[j].key = key => j <= i].value)])
            ELSE None
    IN { Returned([k \in {"result"} |-> result], NoHandle) }

\* LLMNodeExecutor.execute
LLMExecute(node, ctx) ==
    { Returned([k \in {"text"} |-> PyStr(t)], NoHandle) : t \in LLMCompletions }
        \cup {ProviderFailure}

\* APINodeExecutor.execute
APIExecute(node, ctx) ==
    { Returned([k \in {"body", "status_code", "headers"} |->
                  IF k = "body" THEN PyStr("body")
                  ELSE IF k = "status_code" THEN PyInt(200) ELSE PyDict(EmptyMap)],
               NoHandle),
      HttpFailure }

(* ClassifierNodeExecutor.  What chat_completion returns is modelled by what
   lines 38-41 do with it:
     [content |-> "text"]                no "{...}" in the response
     [content |-> "object", data]        "{...}" that json.loads parses to data
     [content |-> "malformed"]           "{...}" that json.loads rejects
     [content |-> "too_deep"]            "{...}" nested deeper than the recursion
                                         limit of the interpreter
     [content |-> "null"]                message.content is None *)
ClassifierAnswers(ids) ==
    {[content |-> c] : c \in {"text", "malformed", "too_deep", "null"}}
        \cup {[content |-> "object", data |-> [k \in {"category_id"} |-> PyStr(id)]] :
                 id \in ids \cup {"other"}}
        \cup {[content |-> "object", data |-> EmptyMap]}

\* lines 35-47: the category_id taken from the response, or the exception that
\* leaves the try statement
ExtractCategoryId(response, categories) ==
    IF response.content = "null"
    THEN Raised("TypeError", "expected string or bytes-like object, got 'NoneType'")
    ELSE IF response.content = "too_deep"
    THEN Raised("RecursionError", "maximum recursion depth exceeded while decoding a JSON object from a unicode string")
    ELSE IF response.content = "object"
    THEN [ok |-> TRUE, category_id |-> Get(response.data, "category_id", None)]
    ELSE [ok |-> TRUE, category_id |-> PyStr(categories[1].id)]

\* line 49: next((c for c in categories if c["id"] == category_id), categories[0])
MatchedCategory(categories, category_id) ==
    IF \E i \in DOMAIN categories : PyStr(categories[i].id) = category_id
    THEN categories[CHOOSE i \in DOMAIN categories :
                       /\ PyStr(categories[i].id) = category_id
                       /\ \A j \in DOMAIN categories :
                             PyStr(categories[j].id) = category_id => i <= j]
    ELSE categories[1]

\* lines 34-56 for one response
Classify(response, categories) ==
    LET e == ExtractCategoryId(response, categories)
    IN IF ~e.ok THEN e
       ELSE LET matched_category == MatchedCategory(categories, e.category_id)
            IN Returned([k \in {"category_id", "category_name"} |->
                            IF k = "category_id" THEN PyStr(matched_category.id)
                            ELSE PyStr(matched_category.name)],
                        matched_category.id)

\* ClassifierNodeExecutor.execute
ClassifierExecute(node, ctx) ==
    LET categories == Get(Config(node), "categories", <<>>)
    IN IF categories = <<>>
       THEN { Returned([k \in {"category_id", "category_name"} |-> None], NoHandle) }
       ELSE { Classify(response, categories) :
                response \in ClassifierAnswers({categories[i].id : i \in DOMAIN categories}) }
            \cup {ProviderFailure}

\* AgentNodeExecutor.execute
AgentExecute(node, ctx) ==
    { Returned([k \in {"text"} |->
                  PyStr("[Mocked Agent " \o Get(Config(node), "agent_id", "None") \o " Response]")],
               NoHandle) }

\* ToolNodeExecutor.execute
ToolExecute(node, ctx) ==
    { Returned([k \in {"result"} |->
                  PyStr("[Mocked Tool " \o Get(Config(node), "tool_id", "None") \o " Result]")],
               NoHandle) }

----------------------------------------------------------------------------
(* ConditionNodeExecutor *)

\* the integers whose decimal text float() is asked to parse in the model
NumRange == -10 .. 10

\* a value that float() rejects counts as 0
py_float_lenient(v) ==
    IF "int" \in DOMAIN v THEN [ok |-> TRUE, val |-> v.int]
    ELSE IF "bool" \in DOMAIN v THEN [ok |-> TRUE, val |-> IF v.bool THEN 1 ELSE 0]
    ELSE IF "str" \in DOMAIN v /\ \E i \in NumRange : ToString(i) = v.str
    THEN [ok |-> TRUE, val |-> CHOOSE i \in NumRange : ToString(i) = v.str]
    ELSE [ok |-> TRUE, val |-> 0]

\* float(value): [ok |-> TRUE, val] or [ok |-> FALSE, exc, error]
py_float(v) ==
    IF "int" \in DOMAIN v THEN [ok |-> TRUE, val |-> v.int]
    ELSE IF "bool" \in DOMAIN v THEN [ok |-> TRUE, val |-> IF v.bool THEN 1 ELSE 0]
    ELSE IF "str" \in DOMAIN v
    THEN IF \E i \in NumRange : ToString(i) = v.str
         THEN [ok |-> TRUE, val |-> CHOOSE i \in NumRange : ToString(i) = v.str]
         ELSE [ok |-> FALSE, exc |-> "ValueError",
               error |-> "could not convert string to float: '" \o v.str \o "'"]
    ELSE [ok |-> FALSE, exc |-> "TypeError",
          error |-> "float() argument must be a string or a real number"]

(* An expression of the model is [lhs, op, rhs] with op one of ">", "<",   *)
(* "==" and operands                                                        *)
(*   [k |-> "num", v]        a number literal                               *)
(*   [k |-> "name", id]      a bare identifier                              *)
(*   [k |-> "sub", id, key]  id['key']                                      *)
(*   [k |-> "tok", path]     a {{path}} template token                      *)

\* resolve_template on one operand: a token whose path is in the context is
\* replaced by the text of its value, which then reads as a number literal
\* or as an identifier; any other token stays as it is, braces included
ResolveOperand(ctx, o) ==
    IF o.k = "tok"
    THEN LET val == get_variable(ctx, Join(Strip(o.path)))
         IN IF IsNone(val) THEN o
            ELSE IF "int" \in DOMAIN val THEN [k |-> "num", v |-> val.int]
            ELSE [k |-> "name", id |-> py_str(val)]
    ELSE o

\* simple_eval of one operand against names: a Name node is looked up under
\* its identifier; [ok |-> FALSE] stands for any exception of the evaluator
EvalOperand(names, o) ==
    IF o.k = "num" THEN [ok |-> TRUE, val |-> PyInt(o.v)]
    ELSE IF o.k = "name"
    THEN IF o.id \in DOMAIN names THEN [ok |-> TRUE, val |-> names[o.id]]
         ELSE [ok |-> FALSE]
    ELSE IF o.k = "sub"
    THEN IF o.id \in DOMAIN names /\ "dict" \in DOMAIN names[o.id]
            /\ o.key \in DOMAIN names[o.id].dict
         THEN [ok |-> TRUE, val |-> names[o.id].dict[o.key]]
         ELSE [ok |-> FALSE]
    ELSE [ok |-> FALSE]

\* simple_eval(resolved_expr, names=context.data)
simple_eval(expr, names) ==
    LET l == EvalOperand(names, expr.lhs)
        r == EvalOperand(names, expr.rhs)
    IN IF ~l.ok \/ ~r.ok THEN [ok |-> FALSE]
       ELSE IF expr.op = "==" THEN [ok |-> TRUE, val |-> PyBool(l.val = r.val)]
       ELSE IF "int" \notin DOMAIN l.val \/ "int" \notin DOMAIN r.val THEN [ok |-> FALSE]
       ELSE IF expr.op = ">" THEN [ok |-> TRUE, val |-> PyBool(l.val.int > r.val.int)]
       ELSE IF expr.op = "<" THEN [ok |-> TRUE, val |-> PyBool(l.val.int < r.val.int)]
       ELSE [ok |-> FALSE]

\* an expression that cannot be evaluated counts as true
ExpressionResult_error_true(config, ctx) ==
    LET expression == config.expression
        resolved_expr == [lhs |-> ResolveOperand(ctx, expression.lhs),
                          op  |-> expression.op,
                          rhs |-> ResolveOperand(ctx, expression.rhs)]
        r == simple_eval(resolved_expr, ctx)
    IN IF r.ok THEN r.val ELSE PyBool(TRUE)

\* the branch condition_type == "expression"
ExpressionResult(config, ctx) ==
    LET expression == config.expression
        resolved_expr == [lhs |-> ResolveOperand(ctx, expression.lhs),
                          op  |-> expression.op,
                          rhs |-> ResolveOperand(ctx, expression.rhs)]
        r == simple_eval(resolved_expr, ctx)
    IN IF r.ok THEN r.val ELSE PyBool(FALSE)

\* sub in s, for two str
py_in(sub, s) ==
    \E i \in 1 .. Len(s) - Len(sub) + 1 : SubSeq(s, i, i + Len(sub) - 1) = sub

\* the branch condition_type == "variable": a result value, or the exception
\* raised by float()
VariableResult(config, ctx) ==
    LET var_val == get_variable(ctx, Get(config, "variable", ""))
        operator == Get(config, "operator", "equals")
        compare_val == resolve_variables(ctx, Get(config, "compare_value", None))
        a == py_float(var_val)
        b == py_float(compare_val)
    IN IF operator = "equals" THEN Returned(PyBool(py_str(var_val) = py_str(compare_val)), NoHandle)
       ELSE IF operator = "notEquals"
       THEN Returned(PyBool(py_str(var_val) # py_str(compare_val)), NoHandle)
       ELSE IF operator = "contains"
       THEN Returned(PyBool(py_in(py_str(compare_val), py_str(var_val))), NoHandle)
       ELSE IF operator \in {"greaterThan", "lessThan"}
       THEN IF ~a.ok THEN Raised(a.exc, a.error)
            ELSE IF ~b.ok THEN Raised(b.exc, b.error)
            ELSE Returned(PyBool(IF operator = "greaterThan" THEN a.val > b.val
                                 ELSE a.val < b.val), NoHandle)
       ELSE IF operator = "isEmpty" THEN Returned(PyBool(~py_truthy(var_val)), NoHandle)
       ELSE IF operator = "isNotEmpty" THEN Returned(PyBool(py_truthy(var_val)), NoHandle)
       ELSE Returned(PyBool(FALSE), NoHandle)

\* the handle is "true" whatever the result
ConditionReturn_always_true(result) ==
    Returned([k \in {"result"} |-> result], "true")

\* the last two lines of execute: the handle follows the truth of result
ConditionReturn(result) ==
    Returned([k \in {"result"} |-> result], IF py_truthy(result) THEN "true" ELSE "false")

\* ConditionNodeExecutor.execute
ConditionExecute(node, ctx) ==
    LET config == Config(node)
        condition_type == Get(config, "condition_type", "variable")
    IN IF condition_type = "variable"
       THEN LET r == VariableResult(config, ctx)
            IN IF r.ok THEN {ConditionReturn(r.outputs)} ELSE {r}
       ELSE IF condition_type = "expression"
       THEN {ConditionReturn(ExpressionResult(config, ctx))}
       ELSE IF condition_type = "llm"
       THEN {ConditionReturn(PyBool(v.has_true)) : v \in LLMVerdicts} \cup {ProviderFailure}
       ELSE {ConditionReturn(PyBool(FALSE))}

----------------------------------------------------------------------------
(* Registry and timeout guard *)

\* _NODE_EXECUTOR_REGISTRY after app.engine.nodes is imported
Registry == {"start", "end", "llm", "api", "condition", "classifier", "agent", "tool"}

get_executor_class(node_type) == IF node_type \in Registry THEN node_type ELSE "None"

\* executor.execute(context): the set of results the node can produce
Execute(node, ctx) ==
    CASE node.type = "start" -> StartExecute(node, ctx)
      [] node.type = "end" -> EndExecute(node, ctx)
      [] node.type = "llm" -> LLMExecute(node, ctx)
      [] node.type = "api" -> APIExecute(node, ctx)
      [] node.type = "condition" -> ConditionExecute(node, ctx)
      [] node.type = "classifier" -> ClassifierExecute(node, ctx)
      [] node.type = "agent" -> AgentExecute(node, ctx)
      [] node.type = "tool" -> ToolExecute(node, ctx)

\* the message does not state the timeout
TimeoutRaised_no_value(node_id, timeout) ==
    Raised("TimeoutError", "Node " \o node_id \o " execution timed out")

\* the TimeoutError raised by execute_with_timeout
TimeoutRaised(node_id, timeout) ==
    Raised("TimeoutError",
           "Node " \o node_id \o " execution timed out after " \o ToString(timeout) \o "s")

\* BaseNodeExecutor.execute_with_timeout.  A deadline that is not positive
\* cancels execute before it starts; otherwise the deadline can only expire
\* while execute waits for an external service.
execute_with_timeout(node_id, node, ctx) ==
    LET timeout == Get(Config(node), "timeout", DEFAULT_TIMEOUT)
    IN IF timeout <= 0 THEN {TimeoutRaised(node_id, timeout)}
       ELSE Execute(node, ctx)
              \cup (IF External(node) THEN {TimeoutRaised(node_id, timeout)} ELSE {})

----------------------------------------------------------------------------
(* ValidationService.validate_workflow *)

NodeType(n) == Get(n, "type", "None")

\* n.get('data', {}).get('label', n['id'])
NodeLabel(n) == Get(Get(n, "data", EmptyMap), "label", n.id)

RECURSIVE BFS(_, _, _)
\* the loop "while queue: curr = queue.popleft() ..." ; returns visited
BFS(adj, queue, visited) ==
    IF queue = <<>> THEN visited
    ELSE LET curr == Head(queue)
         IN IF curr \notin visited
            THEN BFS(adj, Tail(queue) \o Get(adj, curr, <<>>), visited \cup {curr})
            ELSE BFS(adj, Tail(queue), visited)

RECURSIVE CountInDegree(_, _, _)
\* the loop over edges that increments in_degree[edge["target"]]
CountInDegree(edges, i, in_degree) ==
    IF i > Len(edges) THEN in_degree
    ELSE CountInDegree(edges, i + 1,
            IF edges[i].target \in DOMAIN in_degree
            THEN [in_degree EXCEPT ![edges[i].target] = @ + 1] ELSE in_degree)

\* messages of the error list
MsgNoStart == "Workflow must have a start node"
MsgManyStart == "Workflow cannot have more than one start node"
MsgNoEnd == "Workflow must have at least one end node"
MsgCycle == "Workflow contains circular dependencies"
MsgEdge(e) == "Edge references non-existent node: " \o e.source \o " -> " \o e.target
MsgUnreachable(n) == "Node '" \o NodeLabel(n) \o "' is not reachable from start"
MsgNoEnding(n) == "Node '" \o NodeLabel(n) \o "' cannot reach any end node"

NodeId(n) == n.id

\* the comparison misses the case of a single unprocessed node
CycleError_off_by_one(topo_visited, n) == IF topo_visited < n - 1 THEN <<MsgCycle>> ELSE <<>>

\* lines 84-85: fewer nodes processed than there are nodes
CycleError(topo_visited, n) == IF topo_visited < n THEN <<MsgCycle>> ELSE <<>>

\* the end check is skipped when the start check reported an error
CountErrors_elif(start_nodes, end_nodes) ==
    IF Len(start_nodes) = 0 THEN <<MsgNoStart>>
    ELSE IF Len(start_nodes) > 1 THEN <<MsgManyStart>>
    ELSE IF Len(end_nodes) = 0 THEN <<MsgNoEnd>> ELSE <<>>

\* lines 12-22: the start node check and the end node check
CountErrors(start_nodes, end_nodes) ==
    LET errors1 == IF Len(start_nodes) = 0 THEN <<MsgNoStart>>
                   ELSE IF Len(start_nodes) > 1 THEN <<MsgManyStart>> ELSE <<>>
    IN IF Len(end_nodes) = 0 THEN Append(errors1, MsgNoEnd) ELSE errors1

\* the loop stops at the first node that is not visited
ReachErrors_first_only(nodes, visited) ==
    LET missed == SelectSeq(nodes, LAMBDA n : n.id \notin visited)
    IN IF missed = <<>> THEN <<>> ELSE <<MsgUnreachable(missed[1])>>

\* lines 49-51: one error for every node the forward search did not visit
ReachErrors(nodes, visited) ==
    SeqMap(MsgUnreachable, SelectSeq(nodes, LAMBDA n : n.id \notin visited))

\* the backward search starts from the first End node only
EndSeeds_first_only(end_nodes) == IF end_nodes = <<>> THEN <<>> ELSE <<end_nodes[1].id>>

\* line 55: the backward search starts from every End node
EndSeeds(end_nodes) == SeqMap(NodeId, end_nodes)

validate_workflow(definition) ==
    LET nodes == Get(definition, "nodes", <<>>)
        edges == Get(definition, "edges", <<>>)
        start_nodes == SelectSeq(nodes, LAMBDA n : NodeType(n) = "start")
        end_nodes == SelectSeq(nodes, LAMBDA n : NodeType(n) = "end")
        errors2 == CountErrors(start_nodes, end_nodes)
        ids == {nodes[i].id : i \in DOMAIN nodes}
        known(e) == e.source \in ids /\ e.target \in ids
        kedges == SelectSeq(edges, known)
        adj == [u \in ids |-> SeqMap(EdgeTarget, SelectSeq(kedges, LAMBDA e : e.source = u))]
        rev_adj == [v \in ids |-> SeqMap(EdgeSource, SelectSeq(kedges, LAMBDA e : e.target = v))]
        errors3 == errors2 \o SeqMap(MsgEdge, SelectSeq(edges, LAMBDA e : ~known(e)))
        visited == BFS(adj, <<start_nodes[1].id>>, {})
        errors4 == errors3 \o ReachErrors(nodes, visited)
        visited_to_end == BFS(rev_adj, EndSeeds(end_nodes), {})
        errors5 == errors4 \o
                   SeqMap(MsgNoEnding, SelectSeq(nodes, LAMBDA n : n.id \notin visited_to_end))
        in_degree == CountInDegree(edges, 1, [n \in ids |-> 0])
        queue == SelectSeq(NodeIdOrder(nodes), LAMBDA n : in_degree[n] = 0)
        topo_visited == Len(KahnLoop(adj, in_degree, queue, <<>>))
        errors6 == errors5 \o CycleError(topo_visited, Len(nodes))
    IN IF Len(start_nodes) = 0 THEN errors2 ELSE errors6

----------------------------------------------------------------------------
(* Documents of the model *)

Edge(u, v) == [source |-> u, target |-> v]
HEdge(u, v, h) == [source |-> u, target |-> v, sourceHandle |-> h]

Chars_Processed == <<"P", "r", "o", "c", "e", "s", "s", "e", "d", ":", " ", "{", "{", "s", "t", "a", "r", "t", ".", "t", "e", "x", "t", "}", "}">>
Chars_Positive == <<"P", "o", "s", "i", "t", "i", "v", "e">>
Chars_Negative == <<"N", "e", "g", "a", "t", "i", "v", "e">>

\* tests/integration/test_executor.py: test_workflow_executor_run
DocLinear ==
    [nodes |-> <<
        [id |-> "start_1", type |-> "start",
         data |-> [reference_key |-> "start", label |-> "Start", input_variables |-> <<"text">>]],
        [id |-> "end_1", type |-> "end",
         data |-> [reference_key |-> "end", label |-> "End", output_type |-> "template",
                   output_template |-> Chars_Processed]] >>,
     edges |-> << Edge("start_1", "end_1") >>]

\* tests/integration/test_executor.py: test_workflow_executor_with_condition
DocCondition ==
    [nodes |-> <<
        [id |-> "start_1", type |-> "start",
         data |-> [reference_key |-> "start", label |-> "Start", input_variables |-> <<"val">>]],
        [id |-> "cond_1", type |-> "condition",
         data |-> [reference_key |-> "cond", label |-> "Is Positive?",
                   condition_type |-> "expression",
                   expression |-> [lhs |-> [k |-> "sub", id |-> "start", key |-> "val"],
                                   op |-> ">",
                                   rhs |-> [k |-> "num", v |-> 0]]]],
        [id |-> "end_true", type |-> "end",
         data |-> [reference_key |-> "end_t", label |-> "Positive", output_type |-> "template",
                   output_template |-> Chars_Positive]],
        [id |-> "end_false", type |-> "end",
         data |-> [reference_key |-> "end_f", label |-> "Negative", output_type |-> "template",
                   output_template |-> Chars_Negative]] >>,
     edges |-> << Edge("start_1", "cond_1"),
                  HEdge("cond_1", "end_true", "true"),
                  HEdge("cond_1", "end_false", "false") >>]

\* the condition document with the expression {{start.val}} > 0
DocTokenExpression ==
    [DocCondition EXCEPT !.nodes[2].data.expression.lhs =
        [k |-> "tok", path |-> <<"s", "t", "a", "r", "t", ".", "v", "a", "l">>]]

\* the operators of a Condition node in variable mode, and one it does not know
Operators == {"equals", "notEquals", "contains", "greaterThan", "lessThan", "isEmpty",
              "isNotEmpty", "startsWith"}

\* compare values: a number, the text of a number, another text, and none
CompareValues == {PyInt(5), [tpl |-> <<"5">>], [tpl |-> <<"b">>], None}

\* the condition document with the condition in variable mode on start.val
DocVariable(operator, compare_value) ==
    [nodes |-> <<
        [id |-> "start_1", type |-> "start",
         data |-> [reference_key |-> "start", label |-> "Start", input_variables |-> <<"val">>]],
        [id |-> "cond_1", type |-> "condition",
         data |-> [reference_key |-> "cond", label |-> "Compare",
                   condition_type |-> "variable", variable |-> "start.val",
                   operator |-> operator, compare_value |-> compare_value]],
        [id |-> "end_true", type |-> "end",
         data |-> [reference_key |-> "end_t", label |-> "Positive", output_type |-> "template",
                   output_template |-> Chars_Positive]],
        [id |-> "end_false", type |-> "end",
         data |-> [reference_key |-> "end_f", label |-> "Negative", output_type |-> "template",
                   output_template |-> Chars_Negative]] >>,
     edges |-> << Edge("start_1", "cond_1"),
                  HEdge("cond_1", "end_true", "true"),
                  HEdge("cond_1", "end_false", "false") >>]

\* the data a generated node of a given type carries
GenData(k, type) ==
    LET rk == "r" \o ToString(k)
    IN CASE type = "start" -> [reference_key |-> rk, input_variables |-> <<"val">>]
         [] type = "end" -> [reference_key |-> rk, output_type |-> "template",
                             output_template |-> <<"E", ToString(k)>>]
         [] type = "condition" -> [reference_key |-> rk, condition_type |-> "llm"]
         [] OTHER -> [reference_key |-> rk]

GenNode(k, type) == [id |-> "n" \o ToString(k), type |-> type, data |-> GenData(k, type)]

RECURSIVE SetToSeq(_)
SetToSeq(S) == IF S = {} THEN <<>>
               ELSE LET x == CHOOSE x \in S : TRUE IN <<x>> \o SetToSeq(S \ {x})

RECURSIVE SubsetsUpTo(_, _)
\* the sets of at most n elements of S
SubsetsUpTo(S, n) ==
    IF n = 0 THEN {{}}
    ELSE LET P == SubsetsUpTo(S, n - 1) IN P \cup {T \cup {x} : T \in P, x \in S}

\* branching document with two llm branches, each with its own End
DocFanOut ==
    [nodes |-> << GenNode(1, "start"), GenNode(2, "llm"), GenNode(3, "llm"),
                  GenNode(4, "end"), GenNode(5, "end") >>,
     edges |-> << Edge("n1", "n2"), Edge("n1", "n3"), Edge("n2", "n4"), Edge("n3", "n5") >>]

\* two End nodes in a row, the second with a deadline that is not positive
DocEndTimeout ==
    [nodes |-> << GenNode(1, "start"), GenNode(2, "end"),
                  [id |-> "n3", type |-> "end",
                   data |-> [reference_key |-> "r3", output_type |-> "template",
                             output_template |-> <<"E", "3">>, timeout |-> 0]],
                  [id |-> "n4", type |-> "llm",
                   data |-> [reference_key |-> "r4", timeout |-> 5]],
                  GenNode(5, "end") >>,
     edges |-> << Edge("n1", "n2"), Edge("n2", "n3"), Edge("n1", "n4"), Edge("n4", "n5") >>]

\* a node of an unregistered type next to a registered sibling
DocUnregistered ==
    [nodes |-> << GenNode(1, "start"), GenNode(2, "parallel"), GenNode(3, "agent"),
                  GenNode(4, "end"), GenNode(5, "end") >>,
     edges |-> << Edge("n1", "n2"), Edge("n1", "n3"), Edge("n2", "n4"), Edge("n3", "n5") >>]

\* tests/unit/test_validation.py: test_validate_unreachable_node
DocUnreachable ==
    [nodes |-> << [id |-> "n1", type |-> "start", data |-> [label |-> "Start"]],
                  [id |-> "n2", type |-> "llm", data |-> [label |-> "LLM"]],
                  [id |-> "n3", type |-> "end", data |-> [label |-> "End"]] >>,
     edges |-> << Edge("n1", "n3") >>]

\* a diamond n1 -> {n2, n3} -> n4 with the edge n4 -> n2 back into it
DocDiamond ==
    [nodes |-> << GenNode(1, "start"), GenNode(2, "end"), GenNode(3, "end"),
                  GenNode(4, "end") >>,
     edges |-> << Edge("n1", "n2"), Edge("n1", "n3"), Edge("n2", "n4"), Edge("n3", "n4"),
                  Edge("n4", "n2") >>]

\* two nodes share an id
DocDuplicateIds ==
    [nodes |-> << GenNode(1, "start"), GenNode(2, "end"), GenNode(2, "end") >>,
     edges |-> << Edge("n1", "n2") >>]

Inputs(name, value) == [k \in {name} |-> value]

\* n1 -> n2 -> n3 -> n4 with the shortcut n1 -> n4
DocShortcut ==
    [nodes |-> << GenNode(1, "start"), GenNode(2, "agent"), GenNode(3, "agent"),
                  GenNode(4, "end") >>,
     edges |-> << Edge("n1", "n2"), Edge("n2", "n3"), Edge("n3", "n4"), Edge("n1", "n4") >>]

\* a Classifier node with two categories, each with its own End
DocClassifier ==
    [nodes |-> <<
        GenNode(1, "start"),
        [id |-> "n2", type |-> "classifier",
         data |-> [reference_key |-> "r2", input_variable |-> <<>>,
                   categories |-> << [id |-> "a", name |-> "A", description |-> "first"],
                                     [id |-> "b", name |-> "B", description |-> "second"] >>]],
        GenNode(3, "end"), GenNode(4, "end") >>,
     edges |-> << Edge("n1", "n2"), HEdge("n2", "n3", "a"), HEdge("n2", "n4", "b") >>]

\* the documents of the catalogue with the inputs they are run with
Catalogue ==
    { [doc |-> DocLinear, inputs |-> i] :
          i \in {Inputs("text", PyStr("hello")), Inputs("text", PyStr("")),
                 Inputs("text", PyInt(7)), EmptyMap} }
    \cup { [doc |-> DocCondition, inputs |-> Inputs("val", PyInt(v))] : v \in {10, -5, 0} }
    \cup { [doc |-> DocTokenExpression, inputs |-> i] :
          i \in {Inputs("val", PyInt(10)), Inputs("val", PyInt(-5)),
                 Inputs("val", PyStr("abc")), EmptyMap} }
    \cup { [doc |-> d, inputs |-> Inputs("val", PyInt(1))] :
          d \in {DocFanOut, DocEndTimeout, DocUnregistered, DocUnreachable, DocDiamond,
                 DocClassifier, DocShortcut} }
    \cup { [doc |-> DocVariable(operator, compare_value), inputs |-> i] :
          operator \in Operators, compare_value \in CompareValues,
          i \in {Inputs("val", PyInt(7)), Inputs("val", PyStr("5")),
                 Inputs("val", PyStr("abc")), Inputs("val", PyStr("")), EmptyMap} }

GenTypes == {"start", "end", "llm", "condition", "parallel"}
GenHandles == {NoHandle, "true"}

GenIds(n) == {"n" \o ToString(k) : k \in 1 .. n}

\* the edges a generated document that is run can have
GenEdges(n) == {HEdge(u, v, h) : u \in GenIds(n), v \in GenIds(n), h \in GenHandles}

GenDoc(n, types, es) ==
    [nodes |-> [k \in 1 .. n |-> GenNode(k, types[k])], edges |-> SetToSeq(es)]

ValTypes == {"start", "end", "llm"}

\* the edges a generated document that is validated can have: an edge may
\* name the unknown id "ghost"
ValEdges(n) == {Edge(u, v) : u \in GenIds(n) \cup {"ghost"}, v \in GenIds(n) \cup {"ghost"}}

----------------------------------------------------------------------------
(* WorkflowExecutor *)

NotValidated == <<"not validated">>
NoExecution == [status |-> "none", output |-> None, error |-> ""]
NoProbe == [op |-> "none", node |-> "", handle |-> "", result |-> <<>>]

\* tgo-api is not used: no request, no run, an empty registry
NoCancellation ==
    /\ backend = "memory"
    /\ registry = EmptyMap
    /\ requests = <<>>
    /\ stream = EmptyMap
    /\ events = <<>>
    /\ clock = 0
    /\ calls = EmptyMap

RunIdle ==
    /\ pc = "idle"
    /\ context = EmptyMap
    /\ executed_nodes = {}
    /\ curr_node_ids = <<>>
    /\ idx = 0
    /\ next_node_ids = <<>>
    /\ final_output = None
    /\ raised = ""
    /\ log = <<>>
    /\ wavefronts = <<>>
    /\ errors = NotValidated
    /\ execution = NoExecution
    /\ executing = {}
    /\ probe = NoProbe

InitRest == RunIdle /\ NoCancellation

\* a run of a catalogue document, with or without a callback, called directly
\* or through the task; or a direct run of a generated document
Init ==
    /\ \/ /\ \E sc \in Catalogue : doc = sc.doc /\ inputs = sc.inputs
          /\ callback \in {"none", "ok", "flaky"}
          /\ via \in {"direct", "task"}
       \/ /\ \E n \in 1 .. MaxNodes : \E types \in [1 .. n -> GenTypes] :
                \E es \in SubsetsUpTo(GenEdges(n), MaxEdges) : doc = GenDoc(n, types, es)
          /\ inputs = EmptyMap
          /\ callback = "ok"
          /\ via = "direct"
    /\ InitRest

\* WorkflowExecutor.__init__
Graph == WorkflowGraph(Get(doc, "nodes", <<>>), Get(doc, "edges", <<>>))

\* next((n for n in self.graph.nodes.values() if n["type"] == "start"), None)
StartNodes(g) == SelectSeq(g.ids, LAMBDA id : g.nodes[id].type = "start")

\* the inputs are not namespaced
MappedInputs_bare(ref_key, ins) == ins

\* {f"{ref_key}.{k}": v for k, v in inputs.items()}
MappedInputs(ref_key, ins) ==
    [key \in {ref_key \o "." \o k : k \in DOMAIN ins} |->
        ins[CHOOSE k \in DOMAIN ins : ref_key \o "." \o k = key]]

\* the whole topological order is the first wavefront
FirstWavefront_whole(topo_order) == topo_order

\* line 45: curr_node_ids = [topo_order[0]]
FirstWavefront(topo_order) == <<topo_order[1]>>

\* run, lines 26-47: up to the first test of the while loop
RunBegin ==
    /\ pc = "idle"
    /\ via = "direct" \/ execution.status = "running"
    /\ \E g \in {Graph} : \E starts \in {StartNodes(g)} : \E topo_order \in {get_topo_sort(g)} :
          IF starts = <<>>
          THEN /\ pc' = "raised"
               /\ raised' = "ValueError"
               /\ UNCHANGED <<context, curr_node_ids, idx, wavefronts>>
          ELSE LET start_node == g.nodes[starts[1]]
                   ref_key == Get(start_node.data, "reference_key", "start")
               IN /\ context' = MappedInputs(ref_key, inputs)
                  /\ IF topo_order = <<>>
                     THEN /\ pc' = "raised"
                          /\ raised' = "IndexError"
                          /\ UNCHANGED <<curr_node_ids, idx, wavefronts>>
                     ELSE /\ pc' = "loop"
                          /\ curr_node_ids' = FirstWavefront(topo_order)
                          /\ idx' = 1
                          /\ wavefronts' = <<FirstWavefront(topo_order)>>
                          /\ UNCHANGED raised
    /\ UNCHANGED cancelVars
    /\ UNCHANGED <<probe, doc, inputs, callback, via, executed_nodes, next_node_ids,
                   final_output, log, errors, execution, executing>>

\* line 102 and the test of the while loop: the orders list(set(...)) can give
NextWavefronts(ids) == Perms(Range(ids))

\* the end of one iteration of the for loop, nexts being next_node_ids after
\* it: the next node of the wavefront, or the next wavefront, or the return
Advance(nexts) ==
    IF idx < Len(curr_node_ids)
    THEN /\ idx' = idx + 1
         /\ next_node_ids' = nexts
         /\ pc' = "loop"
         /\ UNCHANGED <<curr_node_ids, wavefronts>>
    ELSE \E w \in NextWavefronts(nexts) :
            /\ curr_node_ids' = w
            /\ next_node_ids' = <<>>
            /\ idx' = 1
            /\ wavefronts' = IF w = <<>> THEN wavefronts ELSE Append(wavefronts, w)
            /\ pc' = IF w = <<>> THEN "done" ELSE "loop"

\* no node counts as executed
Executed_never(node_id, executed) == FALSE

\* line 52: node_id in executed_nodes
Executed(node_id, executed) == node_id \in executed

\* lines 52-53: the node was executed before
SkipExecuted ==
    /\ pc = "loop"
    /\ Executed(curr_node_ids[idx], executed_nodes)
    /\ Advance(next_node_ids)
    /\ UNCHANGED cancelVars
    /\ UNCHANGED <<probe, doc, inputs, callback, via, context, executed_nodes, final_output,
                   raised, log, errors, execution, executing>>

\* the loop over the wavefront is left (break) instead of continued
SkipNoExecutor_break ==
    /\ pc = "loop"
    /\ ~Executed(curr_node_ids[idx], executed_nodes)
    /\ \E g \in {Graph} : get_executor_class(get_node(g, curr_node_ids[idx]).type) = "None"
    /\ \E w \in NextWavefronts(next_node_ids) :
            /\ curr_node_ids' = w
            /\ next_node_ids' = <<>>
            /\ idx' = 1
            /\ wavefronts' = IF w = <<>> THEN wavefronts ELSE Append(wavefronts, w)
            /\ pc' = IF w = <<>> THEN "done" ELSE "loop"
    /\ UNCHANGED cancelVars
    /\ UNCHANGED <<probe, doc, inputs, callback, via, context, executed_nodes, final_output,
                   raised, log, errors, execution, executing>>

\* lines 55-60: no executor is registered for the node's type
SkipNoExecutor ==
    /\ pc = "loop"
    /\ ~Executed(curr_node_ids[idx], executed_nodes)
    /\ \E g \in {Graph} : get_executor_class(get_node(g, curr_node_ids[idx]).type) = "None"
    /\ Advance(next_node_ids)
    /\ UNCHANGED cancelVars
    /\ UNCHANGED <<probe, doc, inputs, callback, via, context, executed_nodes, final_output,
                   raised, log, errors, execution, executing>>

\* lines 72-75 on success, 77-79 on an exception: status, error, outputs, handle
Outcome(r) ==
    IF r.ok THEN [status |-> "completed", error |-> "", exc |-> "", outputs |-> r.outputs,
                  next_handle |-> r.handle]
    ELSE [status |-> "failed", error |-> r.error, exc |-> r.exc, outputs |-> EmptyMap,
          next_handle |-> NoHandle]

\* the exception classes of the model that derive from Exception
ExceptionClasses == {"Exception", "TimeoutError", "ValueError", "TypeError", "ConnectError",
                     "RecursionError"}

\* the handler does not catch a TimeoutError
Caught_no_timeout(exc) == exc \in ExceptionClasses \ {"TimeoutError"}

\* line 77: "except Exception" catches the exception a node raised
Caught(exc) == exc \in ExceptionClasses

\* the attempt ends inside the loop body: execute returned, or its exception was caught
Handled(r) == IF r.ok THEN TRUE ELSE Caught(r.exc)

\* lines 72: the context after the attempt
ContextAfter(ctx, node, r) ==
    IF r.ok THEN set_node_outputs(ctx, RefKey(node), r.outputs) ELSE ctx

\* the first End node that completes keeps the final output
FinalOutputAfter_first_wins(final, node, r) ==
    IF r.ok /\ node.type = "end" /\ IsNone(final) THEN Get(r.outputs, "result", None) ELSE final

\* lines 74-75: the final-output candidate after the attempt
FinalOutputAfter(final, node, r) ==
    IF r.ok /\ node.type = "end" THEN Get(r.outputs, "result", None) ELSE final

\* the successors are collected whatever the status
Successors_always(g, node_id, o) == get_next_nodes(g, node_id, o.next_handle)

\* lines 97-100: the successors the attempt adds to next_node_ids
Successors(g, node_id, o) ==
    IF o.status = "completed" THEN get_next_nodes(g, node_id, o.next_handle) ELSE <<>>

\* history: what one attempt did
AttemptEvent(node_id, o) ==
    [ev |-> "attempt", node |-> node_id, status |-> o.status, exc |-> o.exc,
     handle |-> o.next_handle, outputs |-> o.outputs, error |-> o.error]

\* lines 84-93: the arguments on_node_complete is called with (duration left out)
CallbackEvent(node_id, node, o) ==
    [ev |-> "callback", node_id |-> node_id, node_type |-> node.type, status |-> o.status,
     input |-> node.data, output |-> o.outputs, error |-> o.error]

\* on_node_complete is called for completed nodes only
LogAfter_completed_only(l, cb, node_id, node, o) ==
    IF cb # "none" /\ o.status = "completed"
    THEN l \o <<AttemptEvent(node_id, o), CallbackEvent(node_id, node, o)>>
    ELSE Append(l, AttemptEvent(node_id, o))

\* the log after the attempt and the call of on_node_complete, if one was given
LogAfter(l, cb, node_id, node, o) ==
    IF cb # "none"
    THEN l \o <<AttemptEvent(node_id, o), CallbackEvent(node_id, node, o)>>
    ELSE Append(l, AttemptEvent(node_id, o))

\* every node of the rest of the wavefront is started at once
Launched_gather(curr, i) == {curr[j] : j \in i .. Len(curr)}

\* line 71: the one node whose execute_with_timeout the loop awaits
Launched(curr, i) == {curr[i]}

\* the node is not remembered
ExecutedAfter_forget(executed, node_id) == executed

\* line 95: executed_nodes.add(node_id)
ExecutedAfter(executed, node_id) == executed \cup {node_id}

\* lines 62-71: the executor is built and execute_with_timeout is awaited
BeginNode ==
    /\ pc = "loop"
    /\ ~Executed(curr_node_ids[idx], executed_nodes)
    /\ \E g \in {Graph} : get_executor_class(get_node(g, curr_node_ids[idx]).type) # "None"
    /\ pc' = "await"
    /\ executing' = executing \cup Launched(curr_node_ids, idx)
    /\ UNCHANGED cancelVars
    /\ UNCHANGED <<probe, doc, inputs, callback, via, context, executed_nodes, curr_node_ids,
                   idx, next_node_ids, final_output, raised, log, wavefronts, errors,
                   execution>>

\* lines 71-100: execute_with_timeout returns or raises, the callback returns
ExecuteNode ==
    /\ pc = "await"
    /\ \E g \in {Graph} : \E node_id \in {curr_node_ids[idx]} :
       \E node \in {get_node(g, node_id)} :
          /\ get_executor_class(node.type) # "None"
          /\ executing' = executing \ {node_id}
          /\ \E r \in execute_with_timeout(node_id, node, context) :
             \E o \in {Outcome(r)} :
                   IF Handled(r)
                   THEN /\ context' = ContextAfter(context, node, r)
                        /\ final_output' = FinalOutputAfter(final_output, node, r)
                        /\ log' = LogAfter(log, callback, node_id, node, o)
                        /\ executed_nodes' = ExecutedAfter(executed_nodes, node_id)
                        /\ Advance(next_node_ids \o Successors(g, node_id, o))
                        /\ UNCHANGED raised
                   ELSE /\ pc' = "raised"
                        /\ raised' = r.exc
                        /\ log' = Append(log, AttemptEvent(node_id, o))
                        /\ UNCHANGED <<context, final_output, executed_nodes, curr_node_ids,
                                       idx, next_node_ids, wavefronts>>
    /\ UNCHANGED cancelVars
    /\ UNCHANGED <<probe, doc, inputs, callback, via, errors, execution>>

\* lines 71-93: execute_with_timeout returns or raises, on_node_complete
\* raises and the exception leaves run
ExecuteNodeCallbackRaises ==
    /\ pc = "await"
    /\ callback = "flaky"
    /\ \E g \in {Graph} : \E node_id \in {curr_node_ids[idx]} :
       \E node \in {get_node(g, node_id)} :
          /\ get_executor_class(node.type) # "None"
          /\ \E r \in execute_with_timeout(node_id, node, context) :
             \E o \in {Outcome(r)} :
                   /\ Handled(r)
                   /\ context' = ContextAfter(context, node, r)
                   /\ final_output' = FinalOutputAfter(final_output, node, r)
                   /\ log' = LogAfter(log, callback, node_id, node, o)
    /\ pc' = "raised"
    /\ raised' = "CallbackError"
    /\ executing' = executing \ {curr_node_ids[idx]}
    /\ UNCHANGED cancelVars
    /\ UNCHANGED <<probe, doc, inputs, callback, via, executed_nodes, curr_node_ids, idx,
                   next_node_ids, wavefronts, errors, execution>>

----------------------------------------------------------------------------
(* The execute endpoint and the Celery task *)

\* api/executions.py execute_workflow: the record is created, the task queued
ExecuteEndpoint ==
    /\ via = "task"
    /\ execution.status = "none"
    /\ execution' = [execution EXCEPT !.status = "pending"]
    /\ UNCHANGED cancelVars
    /\ UNCHANGED <<probe, doc, inputs, callback, via, errors>>
    /\ UNCHANGED runVars

\* async_execute_workflow up to the construction of the executor
TaskStart ==
    /\ execution.status = "pending"
    /\ execution' = [execution EXCEPT !.status = "running"]
    /\ UNCHANGED cancelVars
    /\ UNCHANGED <<probe, doc, inputs, callback, via, errors>>
    /\ UNCHANGED runVars

\* the record is marked completed whether run returned or raised
TaskRecord_always_completed(exe, p, final, exc) ==
    [exe EXCEPT !.status = "completed", !.output = PyDict([k \in {"result"} |-> final])]

\* async_execute_workflow after run returned or raised
TaskRecord(exe, p, final, exc) ==
    IF p = "done"
    THEN [exe EXCEPT !.status = "completed", !.output = PyDict([k \in {"result"} |-> final])]
    ELSE [exe EXCEPT !.status = "failed", !.error = exc]

TaskFinish ==
    /\ execution.status = "running"
    /\ pc \in {"done", "raised"}
    /\ execution' = TaskRecord(execution, pc, final_output, raised)
    /\ UNCHANGED cancelVars
    /\ UNCHANGED <<probe, doc, inputs, callback, via, errors>>
    /\ UNCHANGED runVars

Next ==
    \/ RunBegin
    \/ SkipExecuted
    \/ SkipNoExecutor
    \/ BeginNode
    \/ ExecuteNode
    \/ ExecuteNodeCallbackRaises
    \/ ExecuteEndpoint
    \/ TaskStart
    \/ TaskFinish

Spec == Init /\ [][Next]_vars

\* the documents whose runs are followed to their end: documents of the
\* catalogue and the generated documents of up to MaxLiveNodes nodes
InitTerminating ==
    /\ \/ /\ doc \in {DocUnreachable, DocDiamond, DocCondition, DocClassifier}
          /\ inputs = Inputs("val", PyInt(1))
          /\ callback \in {"none", "flaky"}
          /\ via \in {"direct", "task"}
       \/ /\ \E n \in 1 .. MaxLiveNodes : \E types \in [1 .. n -> GenTypes] :
                \E es \in SubsetsUpTo(GenEdges(n), MaxEdges) : doc = GenDoc(n, types, es)
          /\ inputs = EmptyMap
          /\ callback = "ok"
          /\ via = "direct"
    /\ InitRest

\* every attempt terminates, and so does every other step of run, of the
\* endpoint and of the task: a step that can be taken is taken
\* every attempt terminates, and so does every other step of run, of the
\* endpoint and of the task: a step that can be taken is taken
Fairness ==
    /\ WF_vars(RunBegin)
    /\ WF_vars(SkipExecuted)
    /\ WF_vars(SkipNoExecutor)
    /\ WF_vars(BeginNode)
    /\ WF_vars(ExecuteNode)
    /\ WF_vars(ExecuteNodeCallbackRaises)
    /\ WF_vars(ExecuteEndpoint)
    /\ WF_vars(TaskStart)
    /\ WF_vars(TaskFinish)

SpecTerminating == InitTerminating /\ [][Next]_vars /\ Fairness

----------------------------------------------------------------------------
(* The validate endpoint, over generated documents *)

\* tests/unit/test_graph.py: test_workflow_graph_init
DocTestGraphInit ==
    [nodes |-> << [id |-> "node1", type |-> "start", data |-> EmptyMap],
                  [id |-> "node2", type |-> "end", data |-> EmptyMap] >>,
     edges |-> << Edge("node1", "node2") >>]

\* two edges between the same nodes, and two edges that name an unknown id
DocParallelEdges ==
    [nodes |-> << GenNode(1, "start"), GenNode(2, "end") >>,
     edges |-> << HEdge("n1", "n2", "true"), Edge("n1", "ghost"), HEdge("n1", "n2", "false"),
                  Edge("ghost", "n2"), Edge("n1", "ghost") >>]

InitValidate ==
    /\ \/ \E n \in 0 .. MaxNodes : \E types \in [1 .. n -> ValTypes] :
             \E es \in SubsetsUpTo(ValEdges(n), MaxValEdges) : doc = GenDoc(n, types, es)
       \/ \E sc \in Catalogue : doc = sc.doc
       \/ doc \in {DocDuplicateIds, DocTestGraphInit, DocParallelEdges}
    /\ inputs = EmptyMap
    /\ callback = "none"
    /\ via = "direct"
    /\ InitRest

\* api/workflows.py validate_workflow: the document is handed to the service
Validate ==
    /\ errors = NotValidated
    /\ errors' = validate_workflow(doc)
    /\ UNCHANGED cancelVars
    /\ UNCHANGED <<probe, doc, inputs, callback, via, execution>>
    /\ UNCHANGED runVars

\* WorkflowGraph(nodes, edges) is constructed from the document
Construct ==
    /\ probe = NoProbe
    /\ probe' = [op |-> "WorkflowGraph", node |-> "", handle |-> NoHandle, result |-> Graph]
    /\ UNCHANGED cancelVars
    /\ UNCHANGED <<doc, inputs, callback, via, errors, execution>>
    /\ UNCHANGED runVars

NextValidate ==
    \/ Validate
    \/ Construct

SpecValidate == InitValidate /\ [][NextValidate]_vars

----------------------------------------------------------------------------
(* The methods of WorkflowGraph, called on generated graphs *)

MaxGraphEdges == 3

\* tests/unit/test_graph.py: test_get_next_nodes
DocTestNextNodes ==
    [nodes |-> << [id |-> "node1", type |-> "condition", data |-> EmptyMap],
                  [id |-> "node2", type |-> "llm", data |-> EmptyMap],
                  [id |-> "node3", type |-> "api", data |-> EmptyMap] >>,
     edges |-> << HEdge("node1", "node2", "true"), HEdge("node1", "node3", "false") >>]

\* tests/unit/test_graph.py: test_topo_sort
DocTestTopoSort ==
    [nodes |-> << [id |-> "node1", type |-> "start", data |-> EmptyMap],
                  [id |-> "node2", type |-> "llm", data |-> EmptyMap],
                  [id |-> "node3", type |-> "end", data |-> EmptyMap] >>,
     edges |-> << Edge("node1", "node2"), Edge("node2", "node3") >>]

\* the chain Start -> A -> B -> End, its node list in another order
DocChain ==
    [nodes |-> << [id |-> "B", type |-> "llm", data |-> EmptyMap],
                  [id |-> "End", type |-> "end", data |-> EmptyMap],
                  [id |-> "A", type |-> "llm", data |-> EmptyMap],
                  [id |-> "Start", type |-> "start", data |-> EmptyMap] >>,
     edges |-> << Edge("B", "End"), Edge("Start", "A"), Edge("A", "B") >>]

\* the handles an edge of a generated graph can carry and a call can ask for
GraphHandles == {NoHandle, "true", "false"}

\* the edges of a generated graph: the target may be the unknown id "ghost"
GraphEdges(n) ==
    {HEdge(u, v, h) : u \in GenIds(n), v \in GenIds(n), h \in GraphHandles}
        \cup {Edge(u, "ghost") : u \in GenIds(n)}

InitGraph ==
    /\ \/ \E n \in 1 .. MaxNodes : \E es \in SubsetsUpTo(GraphEdges(n), MaxGraphEdges) :
             doc = GenDoc(n, [k \in 1 .. n |-> "condition"], es)
       \/ doc \in {DocTestNextNodes, DocTestTopoSort, DocChain}
    /\ inputs = EmptyMap
    /\ callback = "none"
    /\ via = "direct"
    /\ InitRest

\* a call graph.get_next_nodes(node_id, handle_id) on a node of the graph
CallGetNextNodes ==
    /\ \E node_id \in DOMAIN Graph.adj : \E handle_id \in GraphHandles :
          probe' = [op |-> "get_next_nodes", node |-> node_id, handle |-> handle_id,
                    result |-> get_next_nodes(Graph, node_id, handle_id)]
    /\ UNCHANGED cancelVars
    /\ UNCHANGED <<doc, inputs, callback, via, errors, execution>>
    /\ UNCHANGED runVars

\* a call graph.get_topo_sort()
CallGetTopoSort ==
    /\ probe' = [op |-> "get_topo_sort", node |-> "", handle |-> NoHandle,
                 result |-> get_topo_sort(Graph)]
    /\ UNCHANGED cancelVars
    /\ UNCHANGED <<doc, inputs, callback, via, errors, execution>>
    /\ UNCHANGED runVars

NextGraph ==
    \/ CallGetNextNodes
    \/ CallGetTopoSort

SpecGraph == InitGraph /\ [][NextGraph]_vars

----------------------------------------------------------------------------
(* The methods of ExecutionContext, called on generated templates and values *)

MaxChunks == 5      \* pieces of a generated template
MaxValueSize == 4   \* leaves and containers of a generated value

\* tests/unit/test_context.py: test_resolve_template
TplWelcome ==
    << "W", "e", "l", "c", "o", "m", "e", " ", "{", "{", "u", "s", "e", "r",
    ".", "n", "a", "m", "e", "}", "}", "!", " ", "B", "o", "t", " ", "s", "a",
    "y", "s", ":", " ", "{", "{", "b", "o", "t", ".", "g", "r", "e", "e", "t",
    "}", "}" >>

TplMissing ==
    << "M", "i", "s", "s", "i", "n", "g", " ", "{", "{", "n", "o", "n", "e",
    ".", "v", "a", "r", "}", "}" >>

\* tests/unit/test_context.py: test_resolve_variables_recursive
TplValueIs ==
    << "V", "a", "l", "u", "e", " ", "i", "s", " ", "{", "{", "v", "a", "l",
    "}", "}" >>

TplList ==
    << "L", "i", "s", "t", " ", "{", "{", "v", "a", "l", "}", "}" >>

TplPlain ==
    << "P", "l", "a", "i", "n" >>

TplVal ==
    << "{", "{", "v", "a", "l", "}", "}" >>

\* the pieces a generated template is made of
Chunks == {<<"{", "{">>, <<"}", "}">>, <<"{">>, <<"}">>, <<" ">>, <<"a">>}

RECURSIVE Flatten(_)
Flatten(ss) == IF ss = <<>> THEN <<>> ELSE Head(ss) \o Flatten(Tail(ss))

\* the contexts of the generated calls: the key "a" is absent, or holds None,
\* an int or a str
GenContexts ==
    {EmptyMap} \cup {[k \in {"a"} |-> v] : v \in {None, PyInt(12), PyStr("hi")}}

ContextTestTemplate == [k \in {"user.name", "bot.greet"} |->
                           IF k = "user.name" THEN PyStr("Alice") ELSE PyStr("Hello")]
ContextTestVariables == [k \in {"val"} |-> PyInt(123)]

\* the input_dict of test_resolve_variables_recursive
ValueTest ==
    PyDict([k \in {"a", "b", "c"} |->
              CASE k = "a" -> [tpl |-> TplValueIs]
                [] k = "b" -> PyList(<< [tpl |-> TplList], [tpl |-> TplPlain] >>)
                [] k = "c" -> PyDict([n \in {"nested"} |-> [tpl |-> TplVal]])])

\* the scalars of a generated value: a str with a token, a plain str, an int
Leaves == {[tpl |-> <<"{", "{", "a", "}", "}">>], [tpl |-> <<"a">>], PyInt(5)}

RECURSIVE ValueSize(_)
\* the number of scalars and containers of a value
ValueSize(v) ==
    IF "list" \in DOMAIN v
    THEN LET RECURSIVE Sum(_)
             Sum(i) == IF i = 0 THEN 0 ELSE ValueSize(v.list[i]) + Sum(i - 1)
         IN 1 + Sum(Len(v.list))
    ELSE IF "dict" \in DOMAIN v
    THEN LET RECURSIVE SumOver(_)
             SumOver(K) == IF K = {} THEN 0
                           ELSE LET k == CHOOSE k \in K : TRUE
                                IN ValueSize(v.dict[k]) + SumOver(K \ {k})
         IN 1 + SumOver(DOMAIN v.dict)
    ELSE 1

\* the dicts over the keys "a" and "b" that hold the items of s
DictsOf(s) ==
    CASE Len(s) = 0 -> {PyDict(EmptyMap)}
      [] Len(s) = 1 -> {PyDict([k \in {key} |-> s[1]]) : key \in {"a", "b"}}
      [] Len(s) = 2 -> {PyDict([k \in {"a", "b"} |-> IF k = "a" THEN s[1] ELSE s[2]])}
      [] OTHER -> {}

RECURSIVE ValuesUpTo(_)
RECURSIVE ItemsUpTo(_)
\* the values of at most n scalars and containers
ValuesUpTo(n) ==
    IF n <= 0 THEN {}
    ELSE Leaves \cup {PyList(s) : s \in ItemsUpTo(n - 1)}
                \cup UNION {DictsOf(s) : s \in ItemsUpTo(n - 1)}

\* the sequences of values of at most n scalars and containers in all
ItemsUpTo(n) ==
    {<<>>} \cup UNION {{<<v>> \o s : s \in ItemsUpTo(n - ValueSize(v))} : v \in ValuesUpTo(n)}

GenValues == ValuesUpTo(MaxValueSize)

InitContext ==
    /\ doc = [nodes |-> <<>>, edges |-> <<>>]
    /\ inputs = EmptyMap
    /\ callback = "none"
    /\ via = "direct"
    /\ context \in GenContexts \cup {ContextTestTemplate, ContextTestVariables}
    /\ pc = "idle"
    /\ executed_nodes = {}
    /\ curr_node_ids = <<>>
    /\ idx = 0
    /\ next_node_ids = <<>>
    /\ final_output = None
    /\ raised = ""
    /\ log = <<>>
    /\ wavefronts = <<>>
    /\ errors = NotValidated
    /\ execution = NoExecution
    /\ executing = {}
    /\ probe = NoProbe
    /\ NoCancellation

\* the result of the call context.resolve_template(template)
ResolveTemplateCall(template) ==
    [op |-> "resolve_template", template |-> template,
     result |-> resolve_template(context, template)]

\* a call context.resolve_template(template)
CallResolveTemplate ==
    /\ probe = NoProbe
    /\ \/ \E template \in {TplWelcome, TplMissing} : probe' = ResolveTemplateCall(template)
       \/ \E n \in 0 .. MaxChunks : \E f \in [1 .. n -> Chunks] :
             probe' = ResolveTemplateCall(Flatten(f))
    /\ UNCHANGED cancelVars
    /\ UNCHANGED <<doc, inputs, callback, via, errors, execution>>
    /\ UNCHANGED runVars

\* a call context.resolve_variables(value)
CallResolveVariables ==
    /\ probe = NoProbe
    /\ \E value \in GenValues \cup {ValueTest} :
          probe' = [op |-> "resolve_variables", value |-> value,
                    result |-> resolve_variables(context, value)]
    /\ UNCHANGED cancelVars
    /\ UNCHANGED <<doc, inputs, callback, via, errors, execution>>
    /\ UNCHANGED runVars

NextContext ==
    \/ CallResolveTemplate
    \/ CallResolveVariables

SpecContext == InitContext /\ [][NextContext]_vars

-----------------------------------------------------------------------------
(* tgo-api: cancelling a run by client_msg_no.
   run_registry.py, endpoints/ai_runs.py, kafka_consumers/ai_processor.py

   A RunEntry is modelled by the fields the cancellation reads: project_id,
   run_id, pending_cancel, cancel_reason and ts.  api_key is None in every
   call and session_id is only stored.  An Optional[str] that is None is the
   empty string: the code tests these fields for truthiness only. *)

MaxRequests == 2    \* cancel requests of a behaviour
MaxStarts == 2      \* team_run_started events of one stream
MaxWaits == 1       \* waits longer than the registry's time to live

DEFAULT_TTL_SECONDS == 15 * 60

NoneStr == ""
NoEntry == [none |-> TRUE]

Clients == {"c1"}
Projects == {"P", "Q"}
Reasons == {NoneStr, "user"}
StreamProject == "P"        \* payload.project_id of the incoming message

RunEntry(project_id, run_id, pending_cancel, cancel_reason, ts) ==
    [project_id |-> project_id, run_id |-> run_id, pending_cancel |-> pending_cancel,
     cancel_reason |-> cancel_reason, ts |-> ts]

Or(a, b) == IF a # NoneStr THEN a ELSE b

\* _prune_locked; with Redis, the expiry that setex arms
prune(by_client, now) ==
    [k \in {c \in DOMAIN by_client : ~(now - by_client[c].ts > DEFAULT_TTL_SECONDS)}
        |-> by_client[k]]

registry_get(by_client, client_msg_no, now) ==
    Get(prune(by_client, now), client_msg_no, NoEntry)

registry_clear(by_client, client_msg_no) ==
    [k \in DOMAIN by_client \ {client_msg_no} |-> by_client[k]]

Store(by_client, client_msg_no, entry) ==
    [k \in DOMAIN by_client \cup {client_msg_no} |->
        IF k = client_msg_no THEN entry ELSE by_client[k]]

mark_cancel_pending(by_client, client_msg_no, reason, project_id, now) ==
    LET live == prune(by_client, now)
        entry == Get(live, client_msg_no, NoEntry)
    IN  IF entry = NoEntry
        THEN Store(live, client_msg_no, RunEntry(project_id, NoneStr, TRUE, reason, now))
        ELSE Store(live, client_msg_no,
                   [entry EXCEPT !.pending_cancel = TRUE,
                                 !.cancel_reason = reason,
                                 !.project_id = IF project_id # NoneStr
                                                THEN Or(entry.project_id, project_id)
                                                ELSE entry.project_id,
                                 !.ts = now])

\* the pending flag is reported and left set
set_mapping_keeps_pending(by_client, client_msg_no, run_id, project_id, now) ==
    LET live == prune(by_client, now)
        entry == Get(live, client_msg_no, NoEntry)
    IN  IF entry = NoEntry
        THEN [by_client |-> Store(live, client_msg_no,
                                  RunEntry(project_id, run_id, FALSE, NoneStr, now)),
              should_cancel |-> FALSE, reason |-> NoneStr]
        ELSE [by_client |-> Store(live, client_msg_no,
                                  [entry EXCEPT !.run_id = run_id,
                                                !.project_id = Or(entry.project_id, project_id),
                                                !.ts = now]),
              should_cancel |-> entry.pending_cancel,
              reason |-> IF entry.pending_cancel THEN entry.cancel_reason ELSE NoneStr]

\* the registry after the call, and the pair the call returns
set_mapping_and_check_pending(by_client, client_msg_no, run_id, project_id, now) ==
    LET live == prune(by_client, now)
        entry == Get(live, client_msg_no, NoEntry)
    IN  IF entry = NoEntry
        THEN [by_client |-> Store(live, client_msg_no,
                                  RunEntry(project_id, run_id, FALSE, NoneStr, now)),
              should_cancel |-> FALSE, reason |-> NoneStr]
        ELSE LET mapped == [entry EXCEPT !.run_id = run_id,
                                         !.project_id = Or(entry.project_id, project_id),
                                         !.ts = now]
             IN  IF entry.pending_cancel
                 THEN [by_client |-> Store(live, client_msg_no,
                                           [mapped EXCEPT !.pending_cancel = FALSE]),
                       should_cancel |-> TRUE, reason |-> entry.cancel_reason]
                 ELSE [by_client |-> Store(live, client_msg_no, mapped),
                       should_cancel |-> FALSE, reason |-> NoneStr]

(* history *)
Event(ev, req, client, project, run_id, reason) ==
    [ev |-> ev, req |-> req, client |-> client, project |-> project,
     run_id |-> run_id, reason |-> reason, at |-> clock]

Request(at, client, project, reason, status) ==
    [pc |-> at, client |-> client, project |-> project, reason |-> reason,
     status |-> status]

RunId(n) == "run" \o ToString(n)

NoStream == [starts |-> 0, completed |-> FALSE]

\* tgo-api is up with an empty registry; no request and no event yet
InitCancel ==
    /\ doc = [nodes |-> <<>>, edges |-> <<>>]
    /\ inputs = EmptyMap
    /\ callback = "none"
    /\ via = "direct"
    /\ RunIdle
    /\ backend \in {"memory", "redis"}
    /\ registry = EmptyMap
    /\ requests = <<>>
    /\ stream = [c \in Clients |-> NoStream]
    /\ events = <<>>
    /\ clock = 0
    /\ calls = EmptyMap

NothingElse ==
    /\ UNCHANGED <<probe, doc, inputs, callback, via, errors, execution, calls>>
    /\ UNCHANGED runVars

\* cancel_by_client_no and cancel_run_by_staff up to their second await: the
\* lookup, the project check and either the immediate cancellation or, on the
\* in-memory registry whose calls never suspend, mark_cancel_pending.  The
\* AI service accepts the cancellation it is sent.
CancelLookup(client, project, reason) ==
    LET r == Len(requests) + 1
        entry == registry_get(registry, client, clock)
        looked == Event("get", r, client, project, NoneStr, reason)
    IN  /\ Len(requests) < MaxRequests
        /\ IF entry # NoEntry /\ entry.project_id # NoneStr /\ entry.project_id # project
           THEN /\ requests' = Append(requests, Request("done", client, project, reason, "404"))
                /\ registry' = prune(registry, clock)
                /\ events' = Append(events, looked)
           ELSE IF entry # NoEntry /\ entry.run_id # NoneStr
           THEN /\ requests' = Append(requests, Request("done", client, project, reason, "sent"))
                /\ registry' = prune(registry, clock)
                /\ events' = events \o <<looked,
                       Event("cancel", r, client, Or(entry.project_id, project),
                             entry.run_id, reason)>>
           ELSE IF backend = "memory"
           THEN /\ requests' = Append(requests, Request("done", client, project, reason, "pending"))
                /\ registry' = mark_cancel_pending(registry, client, reason, project, clock)
                /\ events' = events \o <<looked,
                       Event("pending", r, client, project, NoneStr, reason)>>
           ELSE /\ requests' = Append(requests, Request("got", client, project, reason, NoneStr))
                /\ registry' = prune(registry, clock)
                /\ events' = Append(events, looked)
        /\ UNCHANGED <<backend, stream, clock>>
        /\ NothingElse

\* the rest of the endpoint on the Redis registry, whose lookup suspended
CancelMarkPending(r) ==
    /\ r \in DOMAIN requests
    /\ requests[r].pc = "got"
    /\ registry' = mark_cancel_pending(registry, requests[r].client, requests[r].reason,
                                       requests[r].project, clock)
    /\ requests' = [requests EXCEPT ![r].pc = "done", ![r].status = "pending"]
    /\ events' = Append(events, Event("pending", r, requests[r].client,
                                      requests[r].project, NoneStr, requests[r].reason))
    /\ UNCHANGED <<backend, stream, clock>>
    /\ NothingElse

\* _handle_run_registry, event team_run_started with a run_id
RunStarted(client) ==
    LET run_id == RunId(stream[client].starts + 1)
        res == set_mapping_and_check_pending(registry, client, run_id, StreamProject, clock)
        started == Event("started", 0, client, StreamProject, run_id, NoneStr)
    IN  /\ ~stream[client].completed
        /\ stream[client].starts < MaxStarts
        /\ stream' = [stream EXCEPT ![client].starts = @ + 1]
        /\ registry' = res.by_client
        /\ events' = IF res.should_cancel
                     THEN events \o <<started, Event("cancel", 0, client, StreamProject,
                                                     run_id, res.reason)>>
                     ELSE Append(events, started)
        /\ UNCHANGED <<backend, requests, clock>>
        /\ NothingElse

\* _handle_run_registry, an event of COMPLETION_EVENT_TYPES
RunCompleted(client) ==
    /\ ~stream[client].completed
    /\ stream' = [stream EXCEPT ![client].completed = TRUE]
    /\ registry' = registry_clear(registry, client)
    /\ events' = Append(events, Event("clear", 0, client, StreamProject, NoneStr, NoneStr))
    /\ UNCHANGED <<backend, requests, clock>>
    /\ NothingElse

\* more than the time to live passes
Wait ==
    /\ clock < MaxWaits * (DEFAULT_TTL_SECONDS + 1)
    /\ clock' = clock + DEFAULT_TTL_SECONDS + 1
    /\ UNCHANGED <<backend, registry, requests, stream, events>>
    /\ NothingElse

NextCancel ==
    \/ \E client \in Clients, project \in Projects, reason \in Reasons :
            CancelLookup(client, project, reason)
    \/ \E r \in 1 .. MaxRequests : CancelMarkPending(r)
    \/ \E client \in Clients : RunStarted(client)
    \/ \E client \in Clients : RunCompleted(client)
    \/ Wait

SpecCancel == InitCancel /\ [][NextCancel]_vars

----------------------------------------------------------------------------
(* RedisRunRegistry shared by two processes: the API process, whose endpoint
   calls mark_cancel_pending, and the consumer process, whose
   _handle_run_registry calls set_mapping_and_check_pending.  Each call is a
   redis.get, the change of the entry in the process, and a redis.setex; each
   process holds its own asyncio.Lock from the get to the setex. *)

Processes == {"api", "consumer"}

NoCall == [pc |-> "idle", lock |-> FALSE]

\* the entry mark_cancel_pending saves, for the entry it read
MarkedEntry(entry, reason, project_id, now) ==
    IF entry = NoEntry
    THEN RunEntry(project_id, NoneStr, TRUE, reason, now)
    ELSE [entry EXCEPT !.pending_cancel = TRUE,
                       !.cancel_reason = reason,
                       !.project_id = IF project_id # NoneStr
                                      THEN Or(entry.project_id, project_id)
                                      ELSE entry.project_id,
                       !.ts = now]

\* the entry set_mapping_and_check_pending saves, for the entry it read, and
\* the pair it returns
MappedEntry(entry, run_id, project_id, now) ==
    IF entry = NoEntry
    THEN [entry |-> RunEntry(project_id, run_id, FALSE, NoneStr, now),
          should_cancel |-> FALSE, reason |-> NoneStr]
    ELSE [entry |-> [entry EXCEPT !.run_id = run_id,
                                  !.project_id = Or(entry.project_id, project_id),
                                  !.ts = now,
                                  !.pending_cancel = FALSE],
          should_cancel |-> entry.pending_cancel,
          reason |-> IF entry.pending_cancel THEN entry.cancel_reason ELSE NoneStr]

\* what Redis may hold for the client when the two calls begin: nothing, the
\* entry of an earlier cancel request, or the entry of an earlier run
RedisStores ==
    {EmptyMap}
    \cup {[c \in {client} |-> MarkedEntry(NoEntry, reason, project, 0)] :
              client \in Clients, reason \in Reasons, project \in Projects}
    \cup {[c \in {client} |-> MappedEntry(NoEntry, RunId(1), StreamProject, 0).entry] :
              client \in Clients}

InitRedis ==
    /\ doc = [nodes |-> <<>>, edges |-> <<>>]
    /\ inputs = EmptyMap
    /\ callback = "none"
    /\ via = "direct"
    /\ RunIdle
    /\ backend = "redis"
    /\ registry \in RedisStores
    /\ requests = <<>>
    /\ stream = [c \in Clients |-> NoStream]
    /\ events = <<>>
    /\ clock = 0
    /\ calls = [p \in Processes |-> NoCall]

OnlyRedis ==
    /\ UNCHANGED <<probe, doc, inputs, callback, via, errors, execution>>
    /\ UNCHANGED runVars
    /\ UNCHANGED <<backend, requests, stream, events, clock>>

\* mark_cancel_pending in the API process: async with self._lock, self.get
MarkGet(client, reason, project) ==
    /\ calls["api"].pc = "idle"
    /\ ~calls["api"].lock
    /\ calls' = [calls EXCEPT !["api"] =
                    [pc |-> "read", lock |-> TRUE, client |-> client, reason |-> reason,
                     project |-> project,
                     entry |-> registry_get(registry, client, clock)]]
    /\ UNCHANGED registry
    /\ OnlyRedis

\* mark_cancel_pending: the entry changed in the process, _save_entry
MarkSave ==
    /\ calls["api"].pc = "read"
    /\ \E c \in {calls["api"]} :
          registry' = Store(registry, c.client,
                            MarkedEntry(c.entry, c.reason, c.project, clock))
    /\ calls' = [calls EXCEPT !["api"].pc = "done", !["api"].lock = FALSE]
    /\ OnlyRedis

\* set_mapping_and_check_pending in the consumer process: async with
\* self._lock, self.get
MappingGet(client) ==
    /\ calls["consumer"].pc = "idle"
    /\ ~calls["consumer"].lock
    /\ calls' = [calls EXCEPT !["consumer"] =
                    [pc |-> "read", lock |-> TRUE, client |-> client, run_id |-> RunId(2),
                     project |-> StreamProject,
                     entry |-> registry_get(registry, client, clock)]]
    /\ UNCHANGED registry
    /\ OnlyRedis

\* set_mapping_and_check_pending: the entry changed in the process,
\* _save_entry, return
MappingSave ==
    /\ calls["consumer"].pc = "read"
    /\ \E c \in {calls["consumer"]} :
          \E res \in {MappedEntry(c.entry, c.run_id, c.project, clock)} :
              /\ registry' = Store(registry, c.client, res.entry)
              /\ calls' = [calls EXCEPT !["consumer"] =
                              [pc |-> "done", lock |-> FALSE, client |-> c.client,
                               run_id |-> c.run_id, should_cancel |-> res.should_cancel,
                               reason |-> res.reason]]
    /\ OnlyRedis

NextRedis ==
    \/ \E client \in Clients, reason \in Reasons, project \in Projects :
            MarkGet(client, reason, project)
    \/ MarkSave
    \/ \E client \in Clients : MappingGet(client)
    \/ MappingSave

SpecRedis == InitRedis /\ [][NextRedis]_vars

----------------------------------------------------------------------------
(* Vocabulary of the properties *)

DocNodes == Get(doc, "nodes", <<>>)
DocEdges == Get(doc, "edges", <<>>)
DocIds == {DocNodes[i].id : i \in DOMAIN DocNodes}
NodeOf(id) == DocNodes[CHOOSE i \in DOMAIN DocNodes : DocNodes[i].id = id]
KnownEdgeSet == {e \in Range(DocEdges) : e.source \in DocIds /\ e.target \in DocIds}

Registered(id) == NodeOf(id).type \in Registry

Attempts == SelectSeq(log, LAMBDA e : e.ev = "attempt")
Callbacks == SelectSeq(log, LAMBDA e : e.ev = "callback")
AttemptedIds == {Attempts[i].node : i \in DOMAIN Attempts}

\* the targets of the edges of n that a branch handle h selects
SelectedTargets(n, h) ==
    {e.target : e \in {x \in KnownEdgeSet :
                          /\ x.source = n
                          /\ h = NoHandle \/ Get(x, "sourceHandle", NoHandle) = h}}

\* the nodes still to be visited by the loop: the rest of the wavefront, the
\* current node included, and the successors collected so far
Scheduled ==
    IF pc \in {"loop", "await"}
    THEN Range(next_node_ids) \cup {curr_node_ids[j] : j \in idx .. Len(curr_node_ids)}
    ELSE {}

\* the rest of the wavefront after the current node, and the collected successors
ScheduledAfterCurrent ==
    Range(next_node_ids) \cup {curr_node_ids[j] : j \in (idx + 1) .. Len(curr_node_ids)}

\* the step attempted a node and the run goes on
AttemptStep == pc = "await" /\ Len(Attempts') = Len(Attempts) + 1 /\ pc' # "raised"

LastAttempt(l) == LET as == SelectSeq(l, LAMBDA e : e.ev = "attempt") IN as[Len(as)]

----------------------------------------------------------------------------
(* C1: a node whose execution fails adds no successor to the next        *)
(* wavefront; the rest of its wavefront stays scheduled, every completed  *)
(* node adds exactly the targets its handle selects, and no node selected *)
(* by a completed node is dropped because some other node failed.         *)

C1_Step ==
    AttemptStep =>
        LET a == LastAttempt(log')
        IN Scheduled' = ScheduledAfterCurrent \cup
                            (IF a.status = "completed"
                             THEN SelectedTargets(a.node, a.handle) ELSE {})

C1_Inv ==
    pc # "raised" =>
        /\ \A i \in DOMAIN Attempts :
              Attempts[i].status = "completed" =>
                  \A t \in SelectedTargets(Attempts[i].node, Attempts[i].handle) :
                      t \in executed_nodes \/ t \in Scheduled \/ ~Registered(t)
        /\ \A k \in DOMAIN wavefronts : \A m \in Range(wavefronts[k]) :
              m \in executed_nodes \/ m \in Scheduled \/ ~Registered(m)

\* C1: a failed node truncates its own branch and nothing else
C1_FailureTruncatesOwnBranch == [](C1_Inv) /\ [][C1_Step]_vars

\* a wavefront in which one node failed and another completed, whose
\* successor was then executed
C1_Witness ==
    /\ pc = "done"
    /\ \E i, j \in DOMAIN Attempts :
          /\ Attempts[i].status = "failed"
          /\ Attempts[j].status = "completed"
          /\ \E k \in DOMAIN wavefronts :
                {Attempts[i].node, Attempts[j].node} \subseteq Range(wavefronts[k])
          /\ SelectedTargets(Attempts[i].node, NoHandle) # {}
          /\ SelectedTargets(Attempts[i].node, NoHandle) \cap executed_nodes = {}
          /\ \E t \in SelectedTargets(Attempts[j].node, Attempts[j].handle) :
                t \in executed_nodes

----------------------------------------------------------------------------
(* C2: with a callback, the log is a sequence of pairs (attempt of a node, *)
(* callback for that node with the attempt's status); no node has two      *)
(* callbacks, and every executed node has one.                            *)

CallbackIds == {Callbacks[i].node_id : i \in DOMAIN Callbacks}

\* C2: on_node_complete is called once per attempted node, right after the attempt
C2_CallbackOncePerAttempt ==
    IF callback = "none" THEN Callbacks = <<>>
    ELSE /\ Len(log) = 2 * Len(Attempts)
         /\ \A i \in 1 .. Len(Attempts) :
               /\ log[2 * i - 1].ev = "attempt"
               /\ log[2 * i].ev = "callback"
               /\ log[2 * i].node_id = log[2 * i - 1].node
               /\ log[2 * i].node_type = NodeOf(log[2 * i - 1].node).type
               /\ log[2 * i].status = log[2 * i - 1].status
               /\ log[2 * i].status \in {"completed", "failed"}
         /\ \A i, j \in DOMAIN Callbacks :
               Callbacks[i].node_id = Callbacks[j].node_id => i = j
         /\ executed_nodes \subseteq CallbackIds
         /\ CallbackIds = AttemptedIds

\* a finished run with a callback in which a node failed and others completed
C2_Witness ==
    /\ pc = "done"
    /\ callback = "ok"
    /\ Len(Callbacks) >= 3
    /\ \E i \in DOMAIN Callbacks : Callbacks[i].status = "failed"
    /\ DocIds \ AttemptedIds # {}

----------------------------------------------------------------------------
(* C3 *)

HasStart == \E i \in DOMAIN DocNodes : DocNodes[i].type = "start"
HasSourceNode == \E id \in DocIds : \A e \in KnownEdgeSet : e.target # id

\* the results of the End nodes that completed
CompletedEndResults ==
    {Get(Attempts[i].outputs, "result", None) :
        i \in {j \in DOMAIN Attempts : /\ Attempts[j].status = "completed"
                                       /\ NodeOf(Attempts[j].node).type = "end"}}

----------------------------------------------------------------------------
(* C4 *)

CompletedEnds ==
    {i \in DOMAIN Attempts : /\ Attempts[i].status = "completed"
                             /\ NodeOf(Attempts[i].node).type = "end"}

\* C4: run returns the result of the End node that completed last, None when
\* no End node completed
C4_LastCompletedEndWins ==
    pc = "done" =>
        IF CompletedEnds = {} THEN IsNone(final_output)
        ELSE LET last == CHOOSE i \in CompletedEnds : \A j \in CompletedEnds : j <= i
             IN final_output = Get(Attempts[last].outputs, "result", None)

\* a finished run in which an End node failed after another End node completed,
\* and a second End node completed after a first
C4_Witness ==
    /\ pc = "done"
    /\ Cardinality(CompletedEnds) >= 2
    /\ \E i \in CompletedEnds : \E j \in DOMAIN Attempts :
          /\ j > i
          /\ NodeOf(Attempts[j].node).type = "end"
          /\ Attempts[j].status = "failed"

----------------------------------------------------------------------------
(* C6: the six structural invariants, stated on the sets of nodes and edges *)

UniqueIds == \A i, j \in DOMAIN DocNodes : DocNodes[i].id = DocNodes[j].id => i = j
StartIds == {DocNodes[i].id : i \in {j \in DOMAIN DocNodes : NodeType(DocNodes[j]) = "start"}}
EndIds == {DocNodes[i].id : i \in {j \in DOMAIN DocNodes : NodeType(DocNodes[j]) = "end"}}

RECURSIVE Closure(_)
\* the nodes reachable from the set S along edges with known endpoints, S included
Closure(S) ==
    LET T == S \cup {e.target : e \in {x \in KnownEdgeSet : x.source \in S}}
    IN IF T = S THEN S ELSE Closure(T)

SuccessorsOf(n) == {e.target : e \in {x \in KnownEdgeSet : x.source = n}}

ExactlyOneStart == Cardinality(StartIds) = 1
AtLeastOneEnd == EndIds # {}
EdgesReferToNodes == \A e \in Range(DocEdges) : e.source \in DocIds /\ e.target \in DocIds
AllReachableFromStart == \A s \in StartIds : Closure({s}) = DocIds
AllReachAnEnd == \A n \in DocIds : Closure({n}) \cap EndIds # {}
Acyclic == \A n \in DocIds : n \notin Closure(SuccessorsOf(n))

SixInvariants ==
    /\ ExactlyOneStart
    /\ AtLeastOneEnd
    /\ EdgesReferToNodes
    /\ AllReachableFromStart
    /\ AllReachAnEnd
    /\ Acyclic

\* C6: on a document with unique node ids, validate_workflow returns the empty
\* list exactly when the six structural invariants hold
C6_ValidIffSixInvariants ==
    (errors # NotValidated /\ UniqueIds) => (errors = <<>> <=> SixInvariants)

\* a validated document of three nodes and three edges that was accepted
C6_Witness ==
    /\ errors = <<>>
    /\ UniqueIds
    /\ Len(DocNodes) = 3
    /\ Len(DocEdges) = 3

----------------------------------------------------------------------------
(* C5 *)

\* C5 as stated: no node of a document that validate_workflow rejects is executed
C5_InvalidDocumentNeverRun == validate_workflow(doc) # <<>> => Attempts = <<>>

----------------------------------------------------------------------------
(* C7 *)

\* C7 as stated: the run of the condition document returns "Positive" when
\* val > 0 and "Negative" otherwise, and executes exactly one End node
C7_ConditionTakesMatchingBranch ==
    (doc = DocCondition /\ pc = "done") =>
        /\ final_output = PyStr(IF inputs.val.int > 0 THEN "Positive" ELSE "Negative")
        /\ Cardinality(AttemptedIds \cap {"end_true", "end_false"}) = 1

----------------------------------------------------------------------------
(* C8 *)

\* C8: the linear document run with {text: v} returns "Processed: " followed
\* by the text of v, and both nodes complete
C8_LinearRunResolvesTemplate ==
    (doc = DocLinear /\ pc = "done" /\ "text" \in DOMAIN inputs) =>
        /\ final_output = PyStr("Processed: " \o py_str(inputs.text))
        /\ Len(Attempts) = 2
        /\ Attempts[1].node = "start_1" /\ Attempts[1].status = "completed"
        /\ Attempts[2].node = "end_1" /\ Attempts[2].status = "completed"
        /\ callback # "none" =>
              \A i \in DOMAIN Callbacks : Callbacks[i].status = "completed"

\* the run of the test: text = "hello" gives "Processed: hello"
C8_Witness ==
    /\ doc = DocLinear
    /\ pc = "done"
    /\ inputs = Inputs("text", PyStr("hello"))
    /\ final_output = PyStr("Processed: hello")
    /\ Len(Callbacks) = 2

----------------------------------------------------------------------------
(* C9 *)

ConfiguredTimeout(n) ==
    IF "timeout" \in DOMAIN NodeOf(n).data THEN NodeOf(n).data.timeout ELSE 60

TimeoutMessage(n) ==
    "Node " \o n \o " execution timed out after " \o ToString(ConfiguredTimeout(n)) \o "s"

C9_Inv ==
    \A i \in DOMAIN Attempts :
        LET a == Attempts[i]
        IN IF a.exc = "TimeoutError"
           THEN /\ a.status = "failed"
                /\ a.error = TimeoutMessage(a.node)
                /\ \A j \in DOMAIN Attempts : Attempts[j].node = a.node => j = i
                /\ callback # "none" =>
                      /\ Cardinality({j \in DOMAIN Callbacks :
                                         Callbacks[j].node_id = a.node}) = 1
                      /\ \A j \in DOMAIN Callbacks :
                            Callbacks[j].node_id = a.node =>
                                /\ Callbacks[j].status = "failed"
                                /\ Callbacks[j].error = TimeoutMessage(a.node)
           ELSE \A n \in DocIds : a.error # TimeoutMessage(n)

C9_Step ==
    (AttemptStep /\ LastAttempt(log').exc = "TimeoutError") =>
        /\ Scheduled' = ScheduledAfterCurrent
        /\ context' = context
        /\ final_output' = final_output

\* C9: a node that times out is reported once as failed with a message that
\* states its configured timeout (60 when none is configured), no other failure
\* carries such a message, and the timeout schedules nothing and leaves the
\* rest of the wavefront scheduled
C9_TimeoutIsReportedWithItsValue == [](C9_Inv) /\ [][C9_Step]_vars

\* a finished run in which a node without a configured timeout timed out, a
\* node of the same wavefront completed and that node's successor was executed
C9_Witness ==
    /\ pc = "done"
    /\ callback = "ok"
    /\ \E i, j \in DOMAIN Attempts :
          /\ Attempts[i].exc = "TimeoutError"
          /\ "timeout" \notin DOMAIN NodeOf(Attempts[i].node).data
          /\ Attempts[j].status = "completed"
          /\ \E k \in DOMAIN wavefronts :
                {Attempts[i].node, Attempts[j].node} \subseteq Range(wavefronts[k])
          /\ SelectedTargets(Attempts[i].node, NoHandle) # {}
          /\ SelectedTargets(Attempts[i].node, NoHandle) \cap executed_nodes = {}
          /\ SelectedTargets(Attempts[j].node, NoHandle) \cap executed_nodes # {}

----------------------------------------------------------------------------
(* C10 *)

AtUnregistered ==
    /\ pc = "loop"
    /\ ~Executed(curr_node_ids[idx], executed_nodes)
    /\ ~Registered(curr_node_ids[idx])

C10_Step ==
    AtUnregistered =>
        /\ context' = context
        /\ log' = log
        /\ final_output' = final_output
        /\ executed_nodes' = executed_nodes
        /\ raised' = raised
        /\ pc' # "raised"
        /\ Scheduled' = ScheduledAfterCurrent

C10_Inv ==
    pc = "done" =>
        \A k \in DOMAIN wavefronts : \A m \in Range(wavefronts[k]) :
            Registered(m) => m \in executed_nodes

\* C10: a node of an unregistered type is passed over: the context, the
\* outcomes, the final output and the set of executed nodes stay as they are, no
\* error is raised, and the rest of its wavefront is still executed
C10_UnregisteredIsNoOp == [](C10_Inv) /\ [][C10_Step]_vars

\* a finished run whose wavefront held an unregistered node, visited first, and
\* a registered node that was executed after it
C10_Witness ==
    /\ pc = "done"
    /\ \E k \in DOMAIN wavefronts : \E a, b \in DOMAIN wavefronts[k] :
          /\ a < b
          /\ ~Registered(wavefronts[k][a])
          /\ wavefronts[k][a] \notin executed_nodes
          /\ Registered(wavefronts[k][b])
          /\ wavefronts[k][b] \in executed_nodes

----------------------------------------------------------------------------
(* C11 *)

\* the wavefronts after the one of index k
LaterWavefrontNodes(k) ==
    UNION {Range(wavefronts[j]) : j \in {i \in DOMAIN wavefronts : i > k}}

\* C11: a node of an unregistered type is a pass-through: when the run has
\* returned, every target of the outgoing edges of an unregistered node the
\* loop visited was placed in a later wavefront
C11_UnregisteredPassesThrough ==
    pc = "done" =>
        \A k \in DOMAIN wavefronts : \A m \in Range(wavefronts[k]) :
            ~Registered(m) => SelectedTargets(m, NoHandle) \subseteq LaterWavefrontNodes(k)

----------------------------------------------------------------------------
(* C12 - C15: the reachability, cycle and count errors of validate_workflow *)

\* the number of positions of the list l that hold m
Occurrences(l, m) == Cardinality({i \in DOMAIN l : l[i] = m})

\* C12: for a document with a Start node (and unique node ids) the list of
\* errors holds "Workflow contains circular dependencies" exactly when the
\* graph of the edges with known endpoints has a cycle, and then once
C12_CycleErrorIffCycle ==
    (errors # NotValidated /\ HasStart /\ UniqueIds) =>
        Occurrences(errors, MsgCycle) = IF Acyclic THEN 0 ELSE 1

\* the Start node the forward search begins at: the first one of the node list
FirstStartId ==
    DocNodes[CHOOSE i \in DOMAIN DocNodes :
                /\ NodeType(DocNodes[i]) = "start"
                /\ \A j \in DOMAIN DocNodes : NodeType(DocNodes[j]) = "start" => i <= j].id

ReachableFromStart(id) == id \in Closure({FirstStartId})

\* C13: for a document with a Start node, every node that is not reachable
\* from the Start node along edges with known endpoints gets exactly one
\* "is not reachable from start" error, and a reachable node gets none
C13_OneErrorPerUnreachableNode ==
    (errors # NotValidated /\ HasStart) =>
        \A i \in DOMAIN DocNodes :
            Occurrences(errors, MsgUnreachable(DocNodes[i])) =
                Cardinality({j \in DOMAIN DocNodes :
                                /\ MsgUnreachable(DocNodes[j]) = MsgUnreachable(DocNodes[i])
                                /\ ~ReachableFromStart(DocNodes[j].id)})

\* a validated document with a node reached through an edge, and two nodes
\* that are not reached, each reported once
C13_Witness ==
    /\ errors # NotValidated
    /\ HasStart
    /\ UniqueIds
    /\ \E i, j \in DOMAIN DocNodes :
          /\ i # j
          /\ ~ReachableFromStart(DocNodes[i].id)
          /\ ~ReachableFromStart(DocNodes[j].id)
          /\ Occurrences(errors, MsgUnreachable(DocNodes[i])) = 1
          /\ Occurrences(errors, MsgUnreachable(DocNodes[j])) = 1
    /\ Occurrences(errors, MsgUnreachable(NodeOf(FirstStartId))) = 0

CanReachEnd(id) == Closure({id}) \cap EndIds # {}

\* C14: for a document with a Start node, every node from which no End node
\* is reachable along edges with known endpoints gets exactly one "cannot
\* reach any end node" error, a node that reaches an End node gets none, and
\* without an End node every node gets the error
C14_OneErrorPerDeadEndNode ==
    (errors # NotValidated /\ HasStart) =>
        /\ \A i \in DOMAIN DocNodes :
              Occurrences(errors, MsgNoEnding(DocNodes[i])) =
                  Cardinality({j \in DOMAIN DocNodes :
                                  /\ MsgNoEnding(DocNodes[j]) = MsgNoEnding(DocNodes[i])
                                  /\ ~CanReachEnd(DocNodes[j].id)})
        /\ EndIds = {} =>
              \A i \in DOMAIN DocNodes : Occurrences(errors, MsgNoEnding(DocNodes[i])) >= 1

\* a validated document with two End nodes in which the Start node reaches
\* the second End node only and gets no error
C14_Witness ==
    /\ errors # NotValidated
    /\ HasStart
    /\ UniqueIds
    /\ Cardinality(EndIds) = 2
    /\ \E i, j \in DOMAIN DocNodes :
          /\ i < j
          /\ {DocNodes[i].id, DocNodes[j].id} = EndIds
          /\ Closure({FirstStartId}) \cap EndIds = {DocNodes[j].id}
    /\ Occurrences(errors, MsgNoEnding(NodeOf(FirstStartId))) = 0

\* C15: for a document without a Start node the list holds the count errors
\* only, whatever its edges are: the missing-start error, followed by the
\* missing-end error when there is no End node either
C15_NoStartGivesCountErrorsOnly ==
    (errors # NotValidated /\ ~HasStart) =>
        errors = <<MsgNoStart>> \o (IF EndIds = {} THEN <<MsgNoEnd>> ELSE <<>>)

\* a validated document without a Start node, with an End node, an edge to an
\* unknown id and a cycle
C15_Witness ==
    /\ errors # NotValidated
    /\ ~HasStart
    /\ EndIds # {}
    /\ ~EdgesReferToNodes
    /\ ~Acyclic
    /\ errors = <<MsgNoStart>>

\* the empty document was validated and both count errors were returned
C15_WitnessEmpty ==
    /\ DocNodes = <<>>
    /\ errors = <<MsgNoStart, MsgNoEnd>>

----------------------------------------------------------------------------
(* C16 *)

\* the positions in the edge list of the edges of n with known endpoints that
\* the handle h selects, every edge of n when h is no handle
SelectedEdges(n, h) ==
    {i \in DOMAIN DocEdges :
        /\ DocEdges[i].source = n
        /\ DocEdges[i].target \in DocIds
        /\ h = NoHandle \/ Get(DocEdges[i], "sourceHandle", NoHandle) = h}

C16_Inv ==
    probe.op = "get_next_nodes" =>
        /\ Range(probe.result) = {DocEdges[i].target : i \in SelectedEdges(probe.node, probe.handle)}
        /\ Len(probe.result) = Cardinality(SelectedEdges(probe.node, probe.handle))

\* two calls in a row on the same node, for "true" and then for "false"
C16_Step ==
    ( /\ probe.op = "get_next_nodes" /\ probe.handle = "true"
      /\ probe'.op = "get_next_nodes" /\ probe'.handle = "false"
      /\ probe'.node = probe.node
      /\ \A i \in SelectedEdges(probe.node, "true"), j \in SelectedEdges(probe.node, "false") :
            DocEdges[i].target # DocEdges[j].target )
    => Range(probe.result) \cap Range(probe'.result) = {}

\* C16: get_next_nodes(n, h) with a handle returns exactly the targets of the
\* outgoing edges of n whose source handle is h, and without a handle the
\* targets of all outgoing edges of n; for a node whose "true" and "false"
\* edges lead to different targets the two results are disjoint
C16_NextNodesFollowHandle == [](C16_Inv) /\ [][C16_Step]_vars

\* a call with the handle "true" on a node that has a "true" edge, a "false"
\* edge and an edge without handle, to three different targets
C16_Witness ==
    /\ probe.op = "get_next_nodes"
    /\ probe.handle = "true"
    /\ Len(probe.result) = 1
    /\ \E i \in SelectedEdges(probe.node, "true"), j \in SelectedEdges(probe.node, "false"),
          k \in SelectedEdges(probe.node, NoHandle) :
          /\ Get(DocEdges[k], "sourceHandle", NoHandle) = NoHandle
          /\ Cardinality({DocEdges[i].target, DocEdges[j].target, DocEdges[k].target}) = 3

\* the call of test_get_next_nodes for "false"
C16_WitnessTest ==
    /\ doc = DocTestNextNodes
    /\ probe = [op |-> "get_next_nodes", node |-> "node1", handle |-> "false",
                result |-> <<"node3">>]

----------------------------------------------------------------------------
(* C18 *)

OnCycle(n) == n \in Closure(SuccessorsOf(n))

\* the nodes on a cycle and the nodes reachable from a node on a cycle
BehindCycle == {n \in DocIds : \E c \in DocIds : OnCycle(c) /\ n \in Closure({c})}

RECURSIVE CleanClosure(_)
\* the nodes reachable from S along paths that visit no node on a cycle
CleanClosure(S) ==
    LET T == S \cup {e.target : e \in {x \in KnownEdgeSet : x.source \in S /\ ~OnCycle(x.target)}}
    IN IF T = S THEN S ELSE CleanClosure(T)

\* the nodes some path from a node without incoming edge reaches without
\* passing through a cycle
ReachedOutsideCycles == CleanClosure({n \in DocIds : \A e \in KnownEdgeSet : e.target # n})

Position(r, x) == CHOOSE i \in DOMAIN r : r[i] = x

\* every id at most once, and the source of every edge before its target
TopoOrdered(r) ==
    /\ \A i, j \in DOMAIN r : r[i] = r[j] => i = j
    /\ \A e \in KnownEdgeSet :
          (e.source \in Range(r) /\ e.target \in Range(r)) =>
              Position(r, e.source) < Position(r, e.target)

\* C18 as stated: get_topo_sort returns every node once and sources before
\* targets on an acyclic graph, and on a graph with a cycle it omits exactly
\* the nodes on a cycle and the nodes reachable only through a cycle
C18_TopoSortOmitsOnlyThroughCycle ==
    probe.op = "get_topo_sort" =>
        /\ TopoOrdered(probe.result)
        /\ Range(probe.result) = ReachedOutsideCycles

\* C18, amended: get_topo_sort returns each id at most once with the source
\* of every edge before its target; it omits exactly the nodes on a cycle and
\* the nodes reachable from a cycle, so on an acyclic graph it returns every
\* node, and on a linear chain the chain order
C18_TopoSortOmitsBehindCycle ==
    probe.op = "get_topo_sort" =>
        /\ TopoOrdered(probe.result)
        /\ Range(probe.result) = DocIds \ BehindCycle
        /\ Acyclic => Range(probe.result) = DocIds
        /\ doc = DocTestTopoSort => probe.result = <<"node1", "node2", "node3">>
        /\ doc = DocChain => probe.result = <<"Start", "A", "B", "End">>

\* a call on a graph with a cycle: one node is on no cycle and is reached
\* from a node without incoming edge, but also from the cycle, and is omitted;
\* another node is returned
C18_Witness ==
    /\ probe.op = "get_topo_sort"
    /\ probe.result # <<>>
    /\ \E x \in DocIds :
          /\ ~OnCycle(x)
          /\ x \in ReachedOutsideCycles
          /\ x \in BehindCycle
          /\ x \notin Range(probe.result)

\* a call on an acyclic graph of three nodes and three edges
C18_WitnessAcyclic ==
    /\ probe.op = "get_topo_sort"
    /\ Acyclic
    /\ Cardinality(KnownEdgeSet) = 3
    /\ Len(probe.result) = 3

----------------------------------------------------------------------------
(* C17 *)

WavefrontNodes == UNION {Range(wavefronts[k]) : k \in DOMAIN wavefronts}

\* C17: an edge without source handle is unconditional: once its source node
\* has completed, whatever handle it emitted, the target of the edge is among
\* the collected successors or in a wavefront
C17_UnhandledEdgeIsUnconditional ==
    pc # "raised" =>
        \A i \in DOMAIN Attempts :
            Attempts[i].status = "completed" =>
                \A e \in KnownEdgeSet :
                    (e.source = Attempts[i].node /\ Get(e, "sourceHandle", NoHandle) = NoHandle)
                        => e.target \in Range(next_node_ids) \cup WavefrontNodes

----------------------------------------------------------------------------
(* C19 *)

\* C19: in a run of a document with a Start node the first wavefront is the
\* Start node alone, and the first node attempted is the Start node
C19_FirstWavefrontIsStart ==
    HasStart =>
        /\ wavefronts # <<>> => wavefronts[1] = <<FirstStartId>>
        /\ Attempts # <<>> => Attempts[1].node = FirstStartId

----------------------------------------------------------------------------
(* C20 *)

\* the step awaits the execution of a node
StartStep == executing' # executing /\ executing' # {}

\* the outputs of the attempt a are in the context under the node's reference key
Merged(a) ==
    \A name \in DOMAIN a.outputs :
        LET key == RefKey(NodeOf(a.node)) \o "." \o name
        IN key \in DOMAIN context /\ context[key] = a.outputs[name]

\* the last attempt is over: its outputs are merged and, with a callback, the
\* call of on_node_complete for it is the last event
LastAttemptOver ==
    log # <<>> =>
        /\ Merged(LastAttempt(log))
        /\ callback # "none" =>
              /\ log[Len(log)].ev = "callback"
              /\ log[Len(log)].node_id = LastAttempt(log).node

C20_Inv ==
    /\ Cardinality(executing) <= 1
    /\ executing # {} => pc = "await" /\ executing = {curr_node_ids[idx]}
    /\ pc = "await" => executing # {}
    /\ pc \in {"loop", "await"} =>
          \A k \in 1 .. (Len(wavefronts) - 1) : \A m \in Range(wavefronts[k]) :
              Registered(m) => m \in AttemptedIds

C20_Step ==
    /\ StartStep =>
          /\ executing = {}
          /\ LastAttemptOver
    /\ Len(Attempts') > Len(Attempts) =>
          /\ Len(Attempts') = Len(Attempts) + 1
          /\ executing = {LastAttempt(log').node}
          /\ executing' = {}
          /\ LastAttempt(log').node \in Range(wavefronts[Len(wavefronts)])

\* C20: at most one node is executing at any time; a node starts only when
\* the execution, the context merge and the callback of the node before it
\* are over; a node is attempted while its wavefront is the current one, and
\* every registered node of the earlier wavefronts was attempted before
C20_OneNodeAtATime == [](C20_Inv) /\ [][C20_Step]_vars

\* the second node of a wavefront, not the first wavefront, is executing, the
\* node before it in the wavefront was attempted
C20_Witness ==
    /\ pc = "await"
    /\ Len(wavefronts) >= 2
    /\ idx >= 2
    /\ executing = {curr_node_ids[idx]}
    /\ curr_node_ids[idx - 1] \in AttemptedIds
    /\ LastAttempt(log).node = curr_node_ids[idx - 1]

----------------------------------------------------------------------------
(* C21 *)

\* t[i..m] is a token: two opening braces, a path of at least one character
\* that holds no closing brace, two closing braces
IsToken(t, i, m) ==
    /\ i + 4 <= m /\ m <= Len(t)
    /\ t[i] = "{" /\ t[i + 1] = "{"
    /\ t[m - 1] = "}" /\ t[m] = "}"
    /\ \A k \in (i + 2) .. (m - 2) : t[k] # "}"

StartsToken(t, i) == \E m \in 1 .. Len(t) : IsToken(t, i, m)
EndOfToken(t, i) == CHOOSE m \in 1 .. Len(t) : IsToken(t, i, m)

\* the positions where the tokens of t start: the leftmost ones, a token does
\* not start inside another
TokenStarts(t) ==
    LET starts[i \in 0 .. Len(t)] ==
            IF i = 0 THEN {}
            ELSE IF StartsToken(t, i) /\ \A j \in starts[i - 1] : EndOfToken(t, j) < i
                 THEN starts[i - 1] \cup {i}
                 ELSE starts[i - 1]
    IN starts[Len(t)]

\* the path of the token t[i..m], trimmed of whitespace
TrimmedPath(t, i, m) ==
    LET solid == {k \in (i + 2) .. (m - 2) : t[k] \notin Whitespace}
    IN IF solid = {} THEN ""
       ELSE Join(SubSeq(t, CHOOSE k \in solid : \A l \in solid : k <= l,
                           CHOOSE k \in solid : \A l \in solid : l <= k))

\* the text that stands for position i of t in the result, starts being the
\* positions where the tokens start and Resolved(path) telling which paths
\* are replaced by their value
ResultPiece(t, i, starts, Resolved(_)) ==
    IF i \in starts
    THEN LET m == EndOfToken(t, i)
             path == TrimmedPath(t, i, m)
         IN IF Resolved(path) THEN py_str(context[path]) ELSE Join(SubSeq(t, i, m))
    ELSE IF \E j \in starts : j < i /\ i <= EndOfToken(t, j) THEN ""
    ELSE t[i]

ExpectedResult(t, Resolved(_)) ==
    LET starts == TokenStarts(t)
        text[i \in 0 .. Len(t)] ==
            IF i = 0 THEN "" ELSE text[i - 1] \o ResultPiece(t, i, starts, Resolved)
    IN text[Len(t)]

PathPresent(path) == path \in DOMAIN context
PathHoldsValue(path) == path \in DOMAIN context /\ ~IsNone(context[path])

\* C21 as stated: resolve_template replaces every token whose trimmed path is
\* present in the context by the string form of its value, leaves the other
\* tokens verbatim, and leaves the text outside tokens unchanged
C21_PresentPathIsReplaced ==
    probe.op = "resolve_template" =>
        probe.result = ExpectedResult(probe.template, PathPresent)

\* C21, amended: resolve_template replaces every token whose trimmed path
\* holds a value other than None by the string form of the value, leaves a
\* token whose path is absent or holds None verbatim, and leaves the text
\* outside tokens unchanged
C21_PathWithValueIsReplaced ==
    probe.op = "resolve_template" =>
        /\ probe.result = ExpectedResult(probe.template, PathHoldsValue)
        /\ (context = ContextTestTemplate /\ probe.template = TplWelcome)
              => probe.result = "Welcome Alice! Bot says: Hello"
        /\ (context = ContextTestTemplate /\ probe.template = TplMissing)
              => probe.result = "Missing {{none.var}}"

\* a call on a context whose key "a" holds None: the token "{{ a}}" stays as
\* it is, the text after it too
C21_Witness ==
    /\ probe.op = "resolve_template"
    /\ "a" \in DOMAIN context
    /\ IsNone(context["a"])
    /\ probe.template = <<"{", "{", " ", "a", "}", "}", "a">>
    /\ probe.result = "{{ a}}a"

\* a call on a context whose key "a" holds 12: the token with a padded path
\* is replaced, the text after it is kept
C21_WitnessReplaced ==
    /\ probe.op = "resolve_template"
    /\ context = [k \in {"a"} |-> PyInt(12)]
    /\ probe.template = <<"{", "{", " ", "a", "}", "}", "a">>
    /\ probe.result = "12a"

\* the first call of test_resolve_template
C21_WitnessTest ==
    /\ probe.op = "resolve_template"
    /\ context = ContextTestTemplate
    /\ probe.template = TplWelcome
    /\ probe.result = "Welcome Alice! Bot says: Hello"

----------------------------------------------------------------------------
(* C22 *)

RECURSIVE ResolvedLike(_, _)
\* r has the shape of v, its str leaves are the resolved str leaves of v and
\* its other scalars are those of v
ResolvedLike(v, r) ==
    IF "list" \in DOMAIN v
    THEN /\ "list" \in DOMAIN r
         /\ Len(r.list) = Len(v.list)
         /\ \A i \in DOMAIN v.list : ResolvedLike(v.list[i], r.list[i])
    ELSE IF "dict" \in DOMAIN v
    THEN /\ "dict" \in DOMAIN r
         /\ DOMAIN r.dict = DOMAIN v.dict
         /\ \A k \in DOMAIN v.dict : ResolvedLike(v.dict[k], r.dict[k])
    ELSE IF "tpl" \in DOMAIN v
    THEN r = PyStr(resolve_template(context, v.tpl))
    ELSE r = v

C22_Inv ==
    probe.op = "resolve_variables" =>
        /\ ResolvedLike(probe.value, probe.result)
        /\ (context = ContextTestVariables /\ probe.value = ValueTest) =>
              /\ probe.result.dict["a"] = PyStr("Value is 123")
              /\ probe.result.dict["b"] = PyList(<<PyStr("List 123"), PyStr("Plain")>>)
              /\ probe.result.dict["c"].dict["nested"] = PyStr("123")

C22_Step == probe'.op = "resolve_variables" => context' = context

\* C22: resolve_variables returns a value of the shape of its argument, the
\* same keys and the same lengths and order, in which every str leaf is
\* resolve_template of that leaf and every other scalar is unchanged, and the
\* call leaves the context as it is
C22_ResolveVariablesKeepsShape == [](C22_Inv) /\ [][C22_Step]_vars

\* a call on a dict that holds a list of a str with a token and an int
C22_Witness ==
    /\ probe.op = "resolve_variables"
    /\ context = [k \in {"a"} |-> PyInt(12)]
    /\ probe.value = PyDict([k \in {"b"} |->
                                PyList(<< [tpl |-> <<"{", "{", "a", "}", "}">>], PyInt(5) >>)])
    /\ probe.result = PyDict([k \in {"b"} |-> PyList(<< PyStr("12"), PyInt(5) >>)])

\* the call of test_resolve_variables_recursive
C22_WitnessTest ==
    /\ probe.op = "resolve_variables"
    /\ context = ContextTestVariables
    /\ probe.value = ValueTest

-----------------------------------------------------------------------------
(* The cancellation of a run by client_msg_no *)

EventAt(ev, r) == CHOOSE i \in DOMAIN events : events[i].ev = ev /\ events[i].req = r

\* the requests the endpoint answered with status "pending"
Queued == {r \in DOMAIN requests : requests[r].status = "pending"}

\* the team_run_started events of the client handled after the lookup of request r
StartsAfterLookup(r) ==
    {s \in DOMAIN events : /\ events[s].ev = "started"
                           /\ events[s].client = requests[r].client
                           /\ s > EventAt("get", r)}

\* the first of them, when the entry the request wrote had not expired by then
StartOfQueued(r) ==
    {s \in StartsAfterLookup(r) :
        /\ \A s2 \in StartsAfterLookup(r) : s <= s2
        /\ s > EventAt("pending", r) => events[s].at = events[EventAt("pending", r)].at}

CancelSentFor(run_id) ==
    \E k \in DOMAIN events : events[k].ev = "cancel" /\ events[k].run_id = run_id

\* C23: a cancel request answered "pending" is followed, when the run starts
\* (its team_run_started event is handled after the request looked the
\* registry up), by a cancellation sent to the AI service for the run_id of
\* that event, however the steps of the endpoint and of the consumer interleave
C23_QueuedCancelIsSent ==
    \A r \in Queued : \A s \in StartOfQueued(r) : CancelSentFor(events[s].run_id)

\* on the in-memory registry the endpoint does not suspend between its lookup
\* and mark_cancel_pending, and there the queued cancellation is sent
C23_QueuedCancelIsSentInMemory == backend = "memory" => C23_QueuedCancelIsSent

C23_WitnessInMemory ==
    /\ backend = "memory"
    /\ \E r \in Queued : \E s \in StartOfQueued(r) : CancelSentFor(events[s].run_id)

-----------------------------------------------------------------------------
\* no element occurs twice in the sequence
NoRepeat(seq) == \A i, j \in DOMAIN seq : seq[i] = seq[j] => i = j

AttemptedNodes == [i \in DOMAIN Attempts |-> Attempts[i].node]

\* the node was attempted and is, or was, in a wavefront formed after that
ScheduledAgain(id) ==
    /\ id \in AttemptedIds
    /\ \E k \in DOMAIN wavefronts : \E k2 \in DOMAIN wavefronts :
          k < k2 /\ id \in Range(wavefronts[k]) /\ id \in Range(wavefronts[k2])

\* C24: no node's executor is invoked more than once in a run, and no
\* wavefront holds a node twice
C24_NodeExecutedAtMostOnce ==
    /\ NoRepeat(AttemptedNodes)
    /\ \A k \in DOMAIN wavefronts : NoRepeat(wavefronts[k])

\* the run of the diamond is over: n4, selected by n2 and by n3, was in one
\* wavefront and executed once, and n2, on the cycle n2 -> n4 -> n2, was
\* scheduled again and not executed again
C24_Witness ==
    /\ doc = DocDiamond
    /\ pc = "done"
    /\ ScheduledAgain("n2")
    /\ Len(SelectSeq(AttemptedNodes, LAMBDA id : id = "n2")) = 1
    /\ Len(SelectSeq(AttemptedNodes, LAMBDA id : id = "n4")) = 1
    /\ \E k \in DOMAIN wavefronts : wavefronts[k] = <<"n4">>

-----------------------------------------------------------------------------
\* the context keys "<rk>.<k>" of the outputs of the attempt a
WrittenKeys(a) ==
    {RefKey(get_node(Graph, a.node)) \o "." \o k : k \in DOMAIN a.outputs}

\* the context after the step holds the outputs of the completed attempt a
\* under the node's reference key and is the context before the step elsewhere
OutputsMerged(a) ==
    /\ DOMAIN context' = DOMAIN context \cup WrittenKeys(a)
    /\ \A k \in DOMAIN a.outputs :
          context'[RefKey(get_node(Graph, a.node)) \o "." \o k] = a.outputs[k]
    /\ \A key \in DOMAIN context \ WrittenKeys(a) : context'[key] = context[key]

\* C25: a step in which a node is attempted merges the outputs of a completed
\* node into the context under "<reference key>.<output key>" and keeps every
\* other key, and leaves the context as it was when the node failed
C25_Step ==
    Len(Attempts') = Len(Attempts) + 1 =>
        IF LastAttempt(log').status = "completed"
        THEN OutputsMerged(LastAttempt(log'))
        ELSE context' = context

C25_AttemptMergesOutputsOrNothing == [][C25_Step]_vars

\* a completed node wrote its outputs next to the keys of an earlier node
C25_Witness ==
    \E i \in DOMAIN Attempts :
        /\ Attempts[i].status = "completed"
        /\ WrittenKeys(Attempts[i]) # {}
        /\ WrittenKeys(Attempts[i]) \subseteq DOMAIN context
        /\ DOMAIN context \ WrittenKeys(Attempts[i]) # {}
        /\ i > 1

\* a node failed when the context was not empty
C25_WitnessFailed ==
    /\ Attempts # <<>>
    /\ Attempts[Len(Attempts)].status = "failed"
    /\ context # EmptyMap

-----------------------------------------------------------------------------
\* the number of edges of the sequence from u to v
EdgesBetween(edges, u, v) ==
    Cardinality({i \in DOMAIN edges : edges[i].source = u /\ edges[i].target = v})

\* the ids the edges and the nodes of the document name
NamedIds ==
    DocIds \cup {DocEdges[i].source : i \in DOMAIN DocEdges}
           \cup {DocEdges[i].target : i \in DOMAIN DocEdges}

Constructed == probe.op = "WorkflowGraph"

\* adj and rev_adj of the constructed graph have an entry for every node id,
\* hold the edges between known ids with their multiplicity and nothing else
AdjacencyIsKnownEdges ==
    LET g == probe.result
        ids == DocIds
        edges == DocEdges
    IN /\ DOMAIN g.adj = ids
       /\ DOMAIN g.rev_adj = ids
       /\ \A u \in ids : Range(g.adj[u]) \subseteq ids /\ Range(g.rev_adj[u]) \subseteq ids
       /\ \A u \in ids : \A v \in ids :
             /\ Occurrences(g.adj[u], v) = EdgesBetween(edges, u, v)
             /\ Occurrences(g.rev_adj[v], u) = EdgesBetween(edges, u, v)

\* the messages "Edge references non-existent node" among the errors are, in
\* the order of the edges, those of the dropped edges, one for each
EdgeErrorsAreDroppedEdges ==
    LET ids == DocIds
        named == NamedIds
        messages == {MsgEdge(Edge(u, v)) : u \in named, v \in named}
        dropped == SelectSeq(DocEdges, LAMBDA e : e.source \notin ids \/ e.target \notin ids)
    IN SelectSeq(errors, LAMBDA m : m \in messages) =
          [i \in DOMAIN dropped |-> MsgEdge(dropped[i])]

DroppedEdges == {i \in DOMAIN DocEdges : DocEdges[i] \notin KnownEdgeSet}

\* C26 as claimed: adj and rev_adj are the known edges, mirrored, over all
\* node ids, and validate_workflow reports "Edge references non-existent
\* node" for exactly the dropped edges
C26_DroppedEdgesAreReported ==
    /\ Constructed => AdjacencyIsKnownEdges
    /\ errors # NotValidated => EdgeErrorsAreDroppedEdges

\* C26: adj and rev_adj are the known edges, mirrored, over all node ids, and
\* validate_workflow, for a document with a Start node, reports "Edge
\* references non-existent node" for exactly the dropped edges
C26_DroppedEdgesAreReportedWithStart ==
    /\ Constructed => AdjacencyIsKnownEdges
    /\ errors # NotValidated /\ HasStart => EdgeErrorsAreDroppedEdges

\* a graph with parallel edges and dropped edges was constructed and validated
C26_Witness ==
    /\ Constructed
    /\ errors # NotValidated
    /\ HasStart
    /\ Cardinality(DroppedEdges) >= 2
    /\ \E u \in DocIds : \E v \in DocIds : EdgesBetween(DocEdges, u, v) = 2

\* the graph of test_workflow_graph_init
C26_WitnessTest ==
    /\ doc = DocTestGraphInit
    /\ Constructed
    /\ Len(probe.result.ids) = 2
    /\ Len(probe.result.edges) = 1
    /\ probe.result.adj["node1"] = <<"node2">>
    /\ probe.result.rev_adj["node2"] = <<"node1">>

-----------------------------------------------------------------------------
\* the Start node run locates, and the key its inputs are namespaced under
LocatedStart == NodeOf(FirstStartId)
SeedKey == Get(LocatedStart.data, "reference_key", "start")

\* every run input k = v is in the context as "<start reference_key>.<k>" = v
InputsKept ==
    \A k \in DOMAIN inputs :
        /\ (SeedKey \o "." \o k) \in DOMAIN context
        /\ context[SeedKey \o "." \o k] = inputs[k]

\* the context holds the namespaced inputs and nothing else
Seeded ==
    /\ InputsKept
    /\ DOMAIN context = {SeedKey \o "." \o k : k \in DOMAIN inputs}

\* the outputs are the declared input variables with the values the run supplied
ReEmitsInputs(outputs) ==
    /\ DOMAIN outputs = Range(Get(LocatedStart.data, "input_variables", <<>>))
    /\ \A name \in DOMAIN outputs :
          outputs[name] = IF name \in DOMAIN inputs THEN inputs[name] ELSE None

StartCompleted(a) == a.node = FirstStartId /\ a.status = "completed"

C27_WitnessNotSupplied ==
    \E i \in DOMAIN Attempts :
        /\ StartCompleted(Attempts[i])
        /\ \E name \in DOMAIN Attempts[i].outputs :
              name \notin DOMAIN inputs /\ Attempts[i].outputs[name] = None

\* the context was seeded and no node has executed yet
C27_WitnessSeeded ==
    /\ pc = "loop"
    /\ Attempts = <<>>
    /\ inputs # EmptyMap
    /\ Seeded

-----------------------------------------------------------------------------
\* float() accepts the value: a number, a bool, or the text of a number
Numeric(v) ==
    \/ "int" \in DOMAIN v
    \/ "bool" \in DOMAIN v
    \/ "str" \in DOMAIN v /\ v.str \in {ToString(i) : i \in NumRange}

\* the node is a Condition node in variable mode that compares by
\* greaterThan or lessThan, and in the context ctx one side is not numeric
NonNumericComparison(node, ctx) ==
    /\ node.type = "condition"
    /\ Get(node.data, "condition_type", "variable") = "variable"
    /\ Get(node.data, "operator", "equals") \in {"greaterThan", "lessThan"}
    /\ \/ ~Numeric(Get(ctx, Get(node.data, "variable", ""), None))
       \/ ~Numeric(resolve_variables(ctx, Get(node.data, "compare_value", None)))

\* the last event of the log is the call of on_node_complete for the attempt a
ReportedLast(l, a) ==
    /\ l[Len(l)].ev = "callback"
    /\ l[Len(l)].node_id = a.node
    /\ l[Len(l)].status = a.status

\* C28: the attempt of a Condition node that compares a non-numeric side by
\* greaterThan or lessThan fails with the exception of float(), is reported
\* with status failed, emits no handle and schedules none of its successors
C28_Step ==
    (Len(Attempts') = Len(Attempts) + 1
        /\ NonNumericComparison(NodeOf(curr_node_ids[idx]), context)) =>
            LET a == LastAttempt(log')
            IN /\ a.status = "failed"
               /\ a.exc \in {"ValueError", "TypeError"}
               /\ a.handle = NoHandle
               /\ callback # "none" => ReportedLast(log', a)
               /\ pc' # "raised" => Scheduled' = ScheduledAfterCurrent

C28_NonNumericComparisonFails == [][C28_Step]_vars

\* the run is over: the comparison of a text that is no number failed and
\* neither branch of the node was executed
C28_Witness ==
    /\ pc = "done"
    /\ \E i \in DOMAIN Attempts :
          /\ Attempts[i].node = "cond_1"
          /\ Attempts[i].status = "failed"
          /\ Attempts[i].exc = "ValueError"
    /\ AttemptedIds \cap {"end_true", "end_false"} = {}

\* the variable was not supplied: float(None) raised
C28_WitnessNone ==
    /\ inputs = EmptyMap
    /\ \E i \in DOMAIN Attempts :
          /\ Attempts[i].node = "cond_1"
          /\ Attempts[i].status = "failed"
          /\ Attempts[i].exc = "TypeError"

-----------------------------------------------------------------------------
ConditionCompleted(a) == NodeOf(a.node).type = "condition" /\ a.status = "completed"

\* the targets of the edges of n tagged with the handle h
TaggedTargets(n, h) ==
    {e.target : e \in {x \in KnownEdgeSet : x.source = n /\ Get(x, "sourceHandle", NoHandle) = h}}

C29_Inv ==
    \A i \in DOMAIN Attempts :
        ConditionCompleted(Attempts[i]) =>
            /\ Attempts[i].handle \in {"true", "false"}
            /\ DOMAIN Attempts[i].outputs = {"result"}
            /\ Attempts[i].handle = "true" <=> py_truthy(Attempts[i].outputs.result)

C29_Step ==
    (AttemptStep /\ ConditionCompleted(LastAttempt(log'))) =>
        LET a == LastAttempt(log')
        IN Scheduled' = ScheduledAfterCurrent \cup TaggedTargets(a.node, a.handle)

\* C29: a Condition node that completes emits the handle "true" or "false",
\* "true" exactly when its result is truthy, and schedules the targets of its
\* edges tagged with that handle and no other node
C29_ConditionFollowsItsResult == [](C29_Inv) /\ [][C29_Step]_vars

\* the run is over: the condition was false, the target of its "false" edge
\* was executed and the target of its "true" edge was not
C29_Witness ==
    /\ pc = "done"
    /\ \E i \in DOMAIN Attempts :
          /\ Attempts[i].node = "cond_1"
          /\ Attempts[i].status = "completed"
          /\ Attempts[i].handle = "false"
          /\ Attempts[i].outputs.result = PyBool(FALSE)
    /\ "end_false" \in AttemptedIds
    /\ "end_true" \notin AttemptedIds

\* the same with a condition that was true
C29_WitnessTrue ==
    /\ pc = "done"
    /\ \E i \in DOMAIN Attempts :
          /\ Attempts[i].node = "cond_1"
          /\ Attempts[i].handle = "true"
          /\ Attempts[i].outputs.result = PyBool(TRUE)
    /\ "end_true" \in AttemptedIds
    /\ "end_false" \notin AttemptedIds

(* ------------------------------------------------------------------ C30 *)

\* the ids of the categories the node is configured with
ConfiguredCategoryIds(node) ==
    LET categories == Get(node.data, "categories", <<>>)
    IN {categories[i].id : i \in DOMAIN categories}

\* the attempt a is the attempt of a Classifier node with a non-empty category list
ClassifierAttempt(a) ==
    /\ NodeOf(a.node).type = "classifier"
    /\ ConfiguredCategoryIds(NodeOf(a.node)) # {}

\* the attempt failed although the provider answered in time: what made it
\* fail is the answer
FailedOnContent(a) ==
    /\ a.status = "failed"
    /\ a.error # ProviderFailure.error
    /\ a.exc # "TimeoutError"

\* C30: a Classifier node with a non-empty category list never fails because
\* of the content of the LLM response: every attempt that the provider
\* answered completes, the category_id it emits is the id of a configured
\* category, and its branch handle equals the emitted category_id
C30_ClassifierNeverFailsOnContent ==
    \A i \in DOMAIN Attempts :
        LET a == Attempts[i]
        IN ClassifierAttempt(a) =>
              /\ ~FailedOnContent(a)
              /\ a.status = "completed" =>
                    /\ \E id \in ConfiguredCategoryIds(NodeOf(a.node)) :
                          a.outputs["category_id"] = PyStr(id)
                    /\ PyStr(a.handle) = a.outputs["category_id"]

\* without the failures: what the claim says of the attempts that complete
C30_CompletedClassifierEmitsConfiguredId ==
    \A i \in DOMAIN Attempts :
        LET a == Attempts[i]
        IN (ClassifierAttempt(a) /\ a.status = "completed") =>
              /\ \E id \in ConfiguredCategoryIds(NodeOf(a.node)) :
                    a.outputs["category_id"] = PyStr(id)
              /\ PyStr(a.handle) = a.outputs["category_id"]

\* the classifier chose the second category and its End ran
C30_WitnessCompleted ==
    /\ pc = "done"
    /\ \E i \in DOMAIN Attempts :
          /\ ClassifierAttempt(Attempts[i])
          /\ Attempts[i].handle = "b"
    /\ "n4" \in AttemptedIds

(* ------------------------------------------------------------------ C31 *)

\* run returned or raised
RunOver == pc \in {"done", "raised"}

\* C31: when every node attempt terminates, run terminates on every document
\* that has a Start node, documents with cyclic edges included, and a run
\* makes at most as many node attempts as the document has nodes
C31_RunTerminates ==
    /\ [](Len(Attempts) <= Len(DocNodes))
    /\ (HasStart /\ pc = "idle") ~> RunOver

\* the run of the document with the cycle n2 -> n4 -> n2 returned after one
\* attempt per node
C31_Witness ==
    /\ doc = DocDiamond
    /\ pc = "done"
    /\ Len(Attempts) = Len(DocNodes)
    /\ ScheduledAgain("n2")

(* ------------------------------------------------------------------ C32 *)

\* the document has an edge u -> v between two of its nodes
IsEdge(u, v) == \E e \in KnownEdgeSet : e.source = u /\ e.target = v

\* C32: in a run over a document that validate_workflow accepts, no node is
\* attempted before a predecessor of it that is attempted in the same run
C32_PredecessorsRunFirst ==
    validate_workflow(doc) = <<>> =>
        \A i \in DOMAIN Attempts : \A j \in DOMAIN Attempts :
            i < j => ~IsEdge(Attempts[j].node, Attempts[i].node)

(* ------------------------------------------------------------------ C33 *)

\* the j-th attempt is of a node that an earlier attempt of the run selected:
\* that attempt completed, and the node is the target of an edge of its node
\* that matches the handle it emitted, of any edge when it emitted none
SelectedByEarlier(j) ==
    \E i \in 1 .. (j - 1) :
        /\ Attempts[i].status = "completed"
        /\ Attempts[j].node \in SelectedTargets(Attempts[i].node, Attempts[i].handle)

\* C33: every node executed in a run, other than the first, was selected by a
\* predecessor that completed earlier in the run, through an edge matching
\* the handle the predecessor emitted
C33_ExecutedNodesWereSelected ==
    \A j \in DOMAIN Attempts : j > 1 => SelectedByEarlier(j)

\* the run of the condition document is over: the Condition node emitted a
\* handle and only the End node behind the matching edge was executed
C33_Witness ==
    /\ pc = "done"
    /\ Len(Attempts) = 3
    /\ Attempts[2].handle # NoHandle
    /\ Cardinality(SuccessorsOf(Attempts[2].node)) = 2

(* ------------------------------------------------------------------ C34 *)

\* C34: a run is determined by its document, its inputs and the outcomes of
\* its nodes: every wavefront of the run is in the only order that line 102
\* can give to its nodes, so the order of the attempts, the callbacks and the
\* final output are the same in every run
C34_RunIsDetermined ==
    \A k \in DOMAIN wavefronts : NextWavefronts(wavefronts[k]) = {wavefronts[k]}

(* ------------------------------------------------------------------ C35 *)

\* C35: the run of a document that validate_workflow accepts, all of whose
\* node types are registered and none of whose attempts failed, has executed
\* an End node when it returns
C35_ValidRunReachesAnEnd ==
    (/\ pc = "done"
     /\ validate_workflow(doc) = <<>>
     /\ \A id \in DocIds : Registered(id)
     /\ \A i \in DOMAIN Attempts : Attempts[i].status = "completed")
        => AttemptedIds \cap EndIds # {}

(* ------------------------------------------------------------------ C36 *)

\* the node is a Condition node in expression mode
ExpressionMode(node) ==
    /\ node.type = "condition"
    /\ Get(node.data, "condition_type", "variable") = "expression"

\* the evaluation of the node's expression, resolved in the context ctx,
\* raises an error
EvaluationRaises(node, ctx) ==
    LET expression == node.data.expression
    IN ~simple_eval([lhs |-> ResolveOperand(ctx, expression.lhs),
                     op  |-> expression.op,
                     rhs |-> ResolveOperand(ctx, expression.rhs)], ctx).ok

\* C36: the attempt of a Condition node in expression mode completes; when
\* the evaluation of its resolved expression raises an error, its result is
\* false, its handle is "false" and it is reported with status completed
C36_Step ==
    (Len(Attempts') = Len(Attempts) + 1 /\ ExpressionMode(NodeOf(curr_node_ids[idx]))) =>
        LET a == LastAttempt(log')
        IN /\ a.status = "completed"
           /\ EvaluationRaises(NodeOf(curr_node_ids[idx]), context) =>
                 /\ a.outputs = [k \in {"result"} |-> PyBool(FALSE)]
                 /\ a.handle = "false"
                 /\ callback # "none" => ReportedLast(log', a)

C36_ExpressionErrorIsFalse == [][C36_Step]_vars

\* the expression {{start.val}} > 0 with val = "abc" named an undefined
\* variable: the node completed with result false and the "false" branch ran
C36_Witness ==
    /\ doc = DocTokenExpression
    /\ inputs = Inputs("val", PyStr("abc"))
    /\ pc = "done"
    /\ \E i \in DOMAIN Attempts :
          /\ Attempts[i].node = "cond_1"
          /\ Attempts[i].status = "completed"
          /\ Attempts[i].handle = "false"
    /\ "end_false" \in AttemptedIds

\* the expression could be evaluated and was true
C36_WitnessEvaluated ==
    /\ doc = DocTokenExpression
    /\ pc = "done"
    /\ "end_true" \in AttemptedIds

(* ------------------------------------------------------------------ C37 *)

Terminal == {"completed", "failed"}

\* what the record says once it is terminal: completed with the final output
\* of a run that returned, failed with the error of a run that raised
C37_Inv ==
    /\ execution.status = "completed" =>
          /\ pc = "done"
          /\ execution.output = PyDict([k \in {"result"} |-> final_output])
    /\ execution.status = "failed" =>
          /\ pc = "raised"
          /\ execution.error = raised

\* the task leaves the record terminal, and a terminal record stays as it is
C37_Step ==
    /\ (execution.status = "running" /\ execution' # execution) =>
          execution'.status \in Terminal
    /\ execution.status \in Terminal => execution' = execution

C37_WitnessFailed ==
    /\ execution.status = "failed"
    /\ execution.error = "CallbackError"

(* ------------------------------------------------------------------ C38 *)

\* the calls of mark_cancel_pending for the client of the event s that no
\* set_mapping_and_check_pending, clear or expiry separates from s
MarksPendingAt(s) ==
    {m \in 1 .. s - 1 :
        /\ events[m].ev = "pending"
        /\ events[m].client = events[s].client
        /\ events[m].at = events[s].at
        /\ \A k \in m + 1 .. s - 1 :
              events[k].client = events[s].client => events[k].ev \notin {"started", "clear"}}

LastMark(s) == CHOOSE m \in MarksPendingAt(s) : \A m2 \in MarksPendingAt(s) : m2 <= m

\* set_mapping_and_check_pending of the event s returned (True, reason)
ReturnedCancel(s, reason) ==
    /\ s + 1 \in DOMAIN events
    /\ events[s + 1] = [events[s] EXCEPT !.ev = "cancel", !.reason = reason]

ReturnedNoCancel(s) ==
    s + 1 \in DOMAIN events => ~(events[s + 1].ev = "cancel" /\ events[s + 1].req = 0)

\* the entry of the client after the call of the event s, the last call so far
MappingRecorded(s) ==
    (s = Len(events) \/ (s + 1 = Len(events) /\ events[s + 1].ev = "cancel"
                                               /\ events[s + 1].req = 0)) =>
        /\ events[s].client \in DOMAIN registry
        /\ registry[events[s].client].run_id = events[s].run_id
        /\ ~registry[events[s].client].pending_cancel

\* C38: on the in-memory registry set_mapping_and_check_pending returns
\* (True, reason) exactly when a mark_cancel_pending precedes it that nothing
\* delivered, cleared or let expire, with the reason of the last such call,
\* returns (False, None) otherwise, and leaves the run_id recorded and the
\* pending flag cleared
C38_PendingCancelDeliveredOnce ==
    backend = "memory" =>
        \A s \in DOMAIN events : events[s].ev = "started" =>
            /\ IF MarksPendingAt(s) # {}
               THEN ReturnedCancel(s, events[LastMark(s)].reason)
               ELSE ReturnedNoCancel(s)
            /\ MappingRecorded(s)

\* a pending cancel was delivered to the first team_run_started and not to
\* the second
C38_Witness ==
    /\ backend = "memory"
    /\ \E m, s, t \in DOMAIN events :
          /\ m < s /\ s < t
          /\ events[m].ev = "pending"
          /\ events[s].ev = "started" /\ events[t].ev = "started"
          /\ ReturnedCancel(s, events[m].reason)
          /\ events[t].at = events[m].at
          /\ t = Len(events)

\* the call for a client_msg_no without an entry returned (False, None)
C38_WitnessNoEntry ==
    /\ backend = "memory"
    /\ events # <<>>
    /\ events[1].ev = "started"
    /\ Len(events) = 1
    /\ registry["c1"].run_id = "run1"

(* ------------------------------------------------------------------ C39 *)

\* the project the runs of the stream belong to
RunProject == StreamProject

\* the cancel requests behind the cancellation events[k]: the request that
\* sent it, or the requests whose pending flag the consumer found
RequestsBehind(k) ==
    IF events[k].req # 0
    THEN {events[k].req}
    ELSE {events[m].req : m \in {m \in 1 .. k - 1 :
              /\ events[m].ev = "pending"
              /\ events[m].client = events[k].client
              /\ \A j \in m + 1 .. k - 2 :
                    events[j].client = events[k].client =>
                        events[j].ev \notin {"started", "clear"}}}

\* a cancellation the AI service receives for a run under the run's project
CancelsRun(k) == events[k].ev = "cancel" /\ events[k].project = RunProject

\* C39: a cancellation of a run is backed by a cancel request authenticated
\* for the project of the run, never by requests of another project alone
C39_ProjectIsolation ==
    \A k \in DOMAIN events :
        CancelsRun(k) => \E r \in RequestsBehind(k) : requests[r].project = RunProject

(* ------------------------------------------------------------------ C40 *)

BothCompleted ==
    /\ calls["api"].pc = "done"
    /\ calls["consumer"].pc = "done"
    /\ calls["api"].client = calls["consumer"].client

\* C40: once a mark_cancel_pending of one process and a
\* set_mapping_and_check_pending of another process for the same
\* client_msg_no have both completed, either the latter returned
\* should_cancel = True or Redis holds the entry with its run_id and
\* pending_cancel = True
C40_NoLostUpdate ==
    BothCompleted =>
        \/ calls["consumer"].should_cancel
        \/ LET entry == registry_get(registry, calls["consumer"].client, clock)
           IN  /\ entry # NoEntry
               /\ entry.run_id = calls["consumer"].run_id
               /\ entry.pending_cancel

====
